---- MODULE Spec2Model ----
(***************************************************************************)
(* Model of the smelter toolchain.                                         *)
(*                                                                         *)
(*   Pipeline A (codegen): Brigadier tree -> consolidated tree ->          *)
(*     execute-rewritten tree -> CommandMap -> TypeScript text.            *)
(*   Pipeline B (compiler_prototype): program AST -> data pack.            *)
(*                                                                         *)
(* Rust Strings are modelled as sequences of one-character strings and     *)
(* compared bytewise, as String's Ord does.  A BTreeSet is a sequence kept *)
(* sorted and free of equal elements; a HashMap's iteration order is a     *)
(* nondeterministic permutation of its keys.                               *)
(***************************************************************************)
EXTENDS Integers, Sequences, FiniteSets, TLC

(***************************************************************************)
(* Strings                                                                 *)
(***************************************************************************)

\* The printable ASCII characters in code order: 32 .. 95 and 97 .. 126 (the
\* grave accent, 96, is left out).
AsciiLow ==
  <<" ", "!", "\"", "#", "$", "%", "&", "'", "(", ")", "*", "+", ",", "-",
    ".", "/", "0", "1", "2", "3", "4", "5", "6", "7", "8", "9", ":", ";",
    "<", "=", ">", "?", "@", "A", "B", "C", "D", "E", "F", "G", "H", "I",
    "J", "K", "L", "M", "N", "O", "P", "Q", "R", "S", "T", "U", "V", "W",
    "X", "Y", "Z", "[", "\\", "]", "^", "_">>

AsciiHigh ==
  <<"a", "b", "c", "d", "e", "f", "g", "h", "i", "j", "k", "l", "m", "n",
    "o", "p", "q", "r", "s", "t", "u", "v", "w", "x", "y", "z", "{", "|",
    "}", "~">>

Chars == {AsciiLow[i] : i \in DOMAIN AsciiLow}
           \cup {AsciiHigh[i] : i \in DOMAIN AsciiHigh}

\* The byte value of a character.
Code ==
  [c \in Chars |->
     IF \E i \in DOMAIN AsciiLow : AsciiLow[i] = c
     THEN 31 + (CHOOSE i \in DOMAIN AsciiLow : AsciiLow[i] = c)
     ELSE 96 + (CHOOSE i \in DOMAIN AsciiHigh : AsciiHigh[i] = c)]

\* Ord for String: bytewise lexicographic, a proper prefix is smaller.
RECURSIVE StrLess(_, _)
StrLess(s, t) ==
  IF t = <<>> THEN FALSE
  ELSE IF s = <<>> THEN TRUE
  ELSE IF Code[Head(s)] # Code[Head(t)] THEN Code[Head(s)] < Code[Head(t)]
  ELSE StrLess(Tail(s), Tail(t))

\* [String]::join(sep)
RECURSIVE Join(_, _)
Join(strs, sep) ==
  IF strs = <<>> THEN <<>>
  ELSE IF Len(strs) = 1 THEN strs[1]
  ELSE strs[1] \o sep \o Join(Tail(strs), sep)

\* Display of a bool inside format!
BoolStr(b) == IF b THEN <<"t", "r", "u", "e">> ELSE <<"f", "a", "l", "s", "e">>

\* str::starts_with
StartsWith(s, prefix) ==
  /\ Len(s) >= Len(prefix)
  /\ SubSeq(s, 1, Len(prefix)) = prefix

\* str::contains for a single character
ContainsChar(s, c) == \E i \in DOMAIN s : s[i] = c

\* str::split(c): the segments between occurrences of c (always at least one).
RECURSIVE Split(_, _)
Split(s, c) ==
  IF ~ContainsChar(s, c) THEN <<s>>
  ELSE LET i == CHOOSE k \in DOMAIN s :
                  s[k] = c /\ \A j \in 1..(k - 1) : s[j] # c
       IN  <<SubSeq(s, 1, i - 1)>> \o Split(SubSeq(s, i + 1, Len(s)), c)

(***************************************************************************)
(* Brigadier tree (brigadier_tree.rs)                                      *)
(***************************************************************************)

\* BrigadierTreeNodeChildren::Nodes(set): nodes is the BTreeSet in order.
Nodes(seq) == [tag |-> "Nodes", nodes |-> seq, path |-> <<>>]

\* BrigadierTreeNodeChildren::Redirect(path)
Redirect(p) == [tag |-> "Redirect", nodes |-> <<>>, path |-> p]

\* BrigadierTreeNode::Argument.  properties is <<>> for None and <<map>> for
\* Some(map), a map being a sequence of <<key, value>> pairs.
Argument(name, executable, parser, properties, children) ==
  [kind |-> "Argument", name |-> name, executable |-> executable,
   parser |-> parser, properties |-> properties, values |-> <<>>,
   children |-> children]

\* BrigadierTreeNode::Enum
Enum(name, values, executable, children) ==
  [kind |-> "Enum", name |-> name, executable |-> executable,
   parser |-> <<>>, properties |-> <<>>, values |-> values,
   children |-> children]

\* BrigadierTreeNode::Literal
Literal(name, executable, children) ==
  [kind |-> "Literal", name |-> name, executable |-> executable,
   parser |-> <<>>, properties |-> <<>>, values |-> <<>>,
   children |-> children]

get_name(node) == node.name

is_executable(node) == node.executable

get_canonical_string(node) ==
  CASE node.kind = "Argument" ->
         <<"A", "r", "g", "(">> \o node.name \o <<",">> \o node.parser
           \o <<",">> \o BoolStr(node.executable) \o <<")">>
    [] node.kind = "Enum" ->
         <<"E", "n", "(">> \o Join(node.values, <<"|">>) \o <<",">>
           \o BoolStr(node.executable) \o <<")">>
    [] node.kind = "Literal" ->
         <<"L", "i", "t", "(">> \o node.name \o <<",">>
           \o BoolStr(node.executable) \o <<")">>

get_children_or_redirect(node) == node.children

\* get_children: Some(nodes) is <<nodes>>, None is <<>>.
get_children(node) ==
  IF node.children.tag = "Nodes" THEN <<node.children.nodes>> ELSE <<>>

\* BrigadierTreeNode::clone(children): every field but the children is kept.
clone(node, children) == [node EXCEPT !.children = children]

\* Mutant of is_followed_by_any_command: executable leaves count as well.
is_followed_by_any_command_AnyLeaf(node) ==
  IF node.children.tag = "Nodes" THEN node.children.nodes = <<>> ELSE FALSE

is_followed_by_any_command(node) ==
  /\ ~is_executable(node)
  /\ IF node.children.tag = "Nodes" THEN node.children.nodes = <<>> ELSE FALSE

\* impl Ord / PartialEq for BrigadierTreeNode: by name only.
NodeLess(m, n) == StrLess(get_name(m), get_name(n))
NodeEq(m, n) == get_name(m) = get_name(n)

\* BTreeSet<BrigadierTreeNode>::insert: an equal element already in the set
\* is kept and the new one dropped.
RECURSIVE NodeSetInsert(_, _)
NodeSetInsert(set, n) ==
  IF set = <<>> THEN <<n>>
  ELSE IF NodeEq(Head(set), n) THEN set
  ELSE IF NodeLess(n, Head(set)) THEN <<n>> \o set
  ELSE <<Head(set)>> \o NodeSetInsert(Tail(set), n)

(***************************************************************************)
(* LiteralConsolidator (command_map/optimizations/enums.rs)                *)
(***************************************************************************)

\* Ord for the tuple (BrigadierTreeNode, String): the node first (that is, its
\* name), then the string.
PairLess(p, q) ==
  \/ NodeLess(p[1], q[1])
  \/ NodeEq(p[1], q[1]) /\ StrLess(p[2], q[2])

PairEq(p, q) == NodeEq(p[1], q[1]) /\ p[2] = q[2]

\* BTreeSet<(BrigadierTreeNode, String)>::insert: an equal tuple already in
\* the set is kept.
RECURSIVE PairSetInsert(_, _)
PairSetInsert(set, p) ==
  IF set = <<>> THEN <<p>>
  ELSE IF PairEq(Head(set), p) THEN set
  ELSE IF PairLess(p, Head(set)) THEN <<p>> \o set
  ELSE <<Head(set)>> \o PairSetInsert(Tail(set), p)

\* The key of a rewritten Literal child in merge_candidates.
MergeKey(pair) == <<pair[2], is_executable(pair[1])>>

IsLiteralPair(pair) == pair[1].kind = "Literal"

\* First loop: the non-Literal children go straight into
\* new_children_and_subtrees, in the order of the children.
RECURSIVE InsertNonLiterals(_, _)
InsertNonLiterals(set, pairs) ==
  IF pairs = <<>> THEN set
  ELSE InsertNonLiterals(
         IF IsLiteralPair(Head(pairs)) THEN set
         ELSE PairSetInsert(set, Head(pairs)),
         Tail(pairs))

\* First loop: merge_candidates after all children were seen.  The Vec of a
\* key holds the Literal children of that key in the order of the children.
MergeCandidates(pairs) ==
  LET lits == SelectSeq(pairs, IsLiteralPair)
      keys == {MergeKey(lits[i]) : i \in DOMAIN lits}
      HasKey(k) == LET Test(p) == MergeKey(p) = k IN SelectSeq(lits, Test)
  IN  [k \in keys |-> [i \in DOMAIN HasKey(k) |-> HasKey(k)[i][1]]]

\* Mutant of MergeEntry: a lone candidate is turned into an Enum as well.
MergeEntry_EnumOfOne(set, key, candidates) ==
  IF candidates = <<>> THEN set
  ELSE LET enum_values == [i \in DOMAIN candidates |-> get_name(candidates[i])]
           enum_children == candidates[Len(candidates)].children
       IN  PairSetInsert(set,
             <<Enum(Join(enum_values, <<"|">>), enum_values, key[2],
                    enum_children),
               key[1]>>)

\* Body of the second loop for one entry of merge_candidates.
MergeEntry(set, key, candidates) ==
  IF candidates = <<>> THEN set
  ELSE IF Len(candidates) = 1
  THEN PairSetInsert(set, <<candidates[1], key[1]>>)
  ELSE LET enum_values == [i \in DOMAIN candidates |-> get_name(candidates[i])]
           enum_children == candidates[Len(candidates)].children
       IN  PairSetInsert(set,
             <<Enum(Join(enum_values, <<"|">>), enum_values, key[2],
                    enum_children),
               key[1]>>)

\* The second loop, merge_candidates being iterated in the given order.
RECURSIVE MergeAll(_, _, _)
MergeAll(set, order, cands) ==
  IF order = <<>> THEN set
  ELSE MergeAll(MergeEntry(set, Head(order), cands[Head(order)]),
                Tail(order), cands)

\* Third loop: new_children collects the nodes of new_children_and_subtrees.
RECURSIVE NewChildren(_)
NewChildren(set) ==
  IF set = <<>> THEN <<>>
  ELSE NodeSetInsert(NewChildren(SubSeq(set, 1, Len(set) - 1)),
                     set[Len(set)][1])

\* Third loop: one string per element of new_children_and_subtrees.
Subtrees(set) ==
  [i \in DOMAIN set |->
     get_canonical_string(set[i][1]) \o <<"[">> \o set[i][2] \o <<"]">>]

\* The orders a HashMap with the given key set may be iterated in.
IterationOrders(keys) ==
  {o \in [1..Cardinality(keys) -> keys] :
     \A i, j \in DOMAIN o : i # j => o[i] # o[j]}

\* consolidate_literals_into_enums_inner: every (node, canonical string of
\* its subtrees) the function can return on `node`, one for each way the
\* merge_candidates maps of the recursion are iterated.
RECURSIVE consolidate_literals_into_enums_inner(_)
consolidate_literals_into_enums_inner(node) ==
  IF node.children.tag = "Redirect"
  THEN {<<clone(node, Redirect(node.children.path)),
          <<"-", ">">> \o Join(node.children.path, <<",">>)>>}
  ELSE
    LET children == node.children.nodes
        outcomes == [i \in DOMAIN children |->
                       consolidate_literals_into_enums_inner(children[i])]
        all == UNION {outcomes[i] : i \in DOMAIN children}
        rewritten == {ps \in [DOMAIN children -> all] :
                        \A i \in DOMAIN children : ps[i] \in outcomes[i]}
        Result(pairs, order) ==
          LET set == MergeAll(InsertNonLiterals(<<>>, pairs), order,
                              MergeCandidates(pairs))
          IN  <<clone(node, Nodes(NewChildren(set))),
                Join(Subtrees(set), <<";">>)>>
    IN  IF children = <<>> THEN {<<clone(node, Nodes(<<>>)), <<>>>>}
        ELSE UNION {
               {Result(pairs, order) :
                  order \in IterationOrders(DOMAIN MergeCandidates(pairs))}
               : pairs \in rewritten}

\* consolidate_literals_into_enums: every tree the function can return.
\* collect() builds the BTreeSet from nodes whose names stay distinct.
consolidate_literals_into_enums(tree) ==
  LET outcomes == [i \in DOMAIN tree |->
                     {p[1] : p \in consolidate_literals_into_enums_inner(tree[i])}]
      all == UNION {outcomes[i] : i \in DOMAIN tree}
  IN  {t \in [DOMAIN tree -> all] : \A i \in DOMAIN tree : t[i] \in outcomes[i]}

(***************************************************************************)
(* RedirectRewriter (command_map/optimizations/execute.rs)                 *)
(***************************************************************************)

EXECUTE == <<"e", "x", "e", "c", "u", "t", "e">>
RUN == <<"r", "u", "n">>

\* path.first().unwrap() panics on an empty redirect path: TRUE when the
\* rewrite of `node` reaches such a path.
RECURSIVE handle_execute_command_inner_panics(_)
handle_execute_command_inner_panics(node) ==
  IF node.children.tag = "Redirect" THEN node.children.path = <<>>
  ELSE \E i \in DOMAIN node.children.nodes :
         handle_execute_command_inner_panics(node.children.nodes[i])

\* Mutant of handle_execute_command_inner: the children of a Nodes set are
\* kept as they are instead of being rewritten.
handle_execute_command_inner_Shallow(node) ==
  LET new_children ==
        IF node.children.tag = "Nodes"
        THEN Nodes(node.children.nodes)
        ELSE Nodes(IF Head(node.children.path) = EXECUTE
                   THEN NodeSetInsert(<<>>, Literal(RUN, FALSE, Nodes(<<>>)))
                   ELSE <<>>)
  IN  clone(node, new_children)

\* handle_execute_command_inner, on a node whose rewrite does not panic.
RECURSIVE handle_execute_command_inner(_)
handle_execute_command_inner(node) ==
  LET new_children ==
        IF node.children.tag = "Nodes"
        THEN Nodes([i \in DOMAIN node.children.nodes |->
                      handle_execute_command_inner(node.children.nodes[i])])
        ELSE Nodes(IF Head(node.children.path) = EXECUTE
                   THEN NodeSetInsert(<<>>, Literal(RUN, FALSE, Nodes(<<>>)))
                   ELSE <<>>)
  IN  clone(node, new_children)

handle_execute_command_panics(tree) ==
  \E i \in DOMAIN tree :
     get_name(tree[i]) = EXECUTE /\ handle_execute_command_inner_panics(tree[i])

handle_execute_command(tree) ==
  [i \in DOMAIN tree |->
     IF get_name(tree[i]) = EXECUTE
     THEN handle_execute_command_inner(tree[i])
     ELSE tree[i]]

(***************************************************************************)
(* CommandEnumerator (command_map.rs)                                      *)
(***************************************************************************)

\* CommandToken::Argument
ArgumentToken(name, parser, is_optional) ==
  [kind |-> "Argument", name |-> name, parser |-> parser, values |-> <<>>,
   value |-> <<>>, is_optional |-> is_optional]

\* CommandToken::Enum
EnumToken(values, is_optional) ==
  [kind |-> "Enum", name |-> <<>>, parser |-> <<>>, values |-> values,
   value |-> <<>>, is_optional |-> is_optional]

\* CommandToken::Literal
LiteralToken(value, is_optional) ==
  [kind |-> "Literal", name |-> <<>>, parser |-> <<>>, values |-> <<>>,
   value |-> value, is_optional |-> is_optional]

CALLBACK == <<"c", "a", "l", "l", "b", "a", "c", "k">>
TODO == <<"T", "O", "D", "O">>

\* The closure of list_command_variants that turns a branch node into a token.
NodeToken(n, is_optional) ==
  CASE n.kind = "Argument" -> ArgumentToken(n.name, n.parser, is_optional)
    [] n.kind = "Enum" -> EnumToken(n.values, is_optional)
    [] n.kind = "Literal" -> LiteralToken(n.name, is_optional)

\* Mutant of OptionalCandidates: the loop stops after its first candidate.
OptionalCandidates_OneAtMost(branch_last_node) ==
  LET children == get_children(branch_last_node)
  IN  IF children = <<>> THEN <<>>
      ELSE IF Len(children[1]) # 1 THEN <<>>
      ELSE IF ~is_executable(children[1][1]) THEN <<>>
      ELSE <<children[1][1]>>

\* Mutant of OptionalCandidates: an only child is a candidate whether it is
\* executable or not.
RECURSIVE OptionalCandidates_AnyOnlyChild(_)
OptionalCandidates_AnyOnlyChild(branch_last_node) ==
  LET children == get_children(branch_last_node)
  IN  IF children = <<>> THEN <<>>
      ELSE IF Len(children[1]) # 1 THEN <<>>
      ELSE <<children[1][1]>> \o OptionalCandidates_AnyOnlyChild(children[1][1])

\* The loop of list_command_variants: the nodes pushed onto branch_copy after
\* branch_last_node, each the only child of its predecessor and executable.
RECURSIVE OptionalCandidates(_)
OptionalCandidates(branch_last_node) ==
  LET children == get_children(branch_last_node)
  IN  IF children = <<>> THEN <<>>
      ELSE IF Len(children[1]) # 1 THEN <<>>
      ELSE IF ~is_executable(children[1][1]) THEN <<>>
      ELSE <<children[1][1]>> \o OptionalCandidates(children[1][1])

RECURSIVE Concat(_)
Concat(seqs) == IF seqs = <<>> THEN <<>> ELSE Head(seqs) \o Concat(Tail(seqs))

\* list_command_variants: the variants the call pushes onto the entry of the
\* command (the first node of the branch), in the order it pushes them.
RECURSIVE list_command_variants(_, _)
list_command_variants(node, branch) ==
  LET emits == is_executable(node) \/ is_followed_by_any_command(node)
      node_index == Len(branch)
      candidates == IF emits THEN OptionalCandidates(node) ELSE <<>>
      branch_copy == Append(branch, node) \o candidates
      branch_last_node == branch_copy[Len(branch_copy)]
      children_to_iterate == get_children(branch_last_node)
      command_tokens ==
        [k \in 1..(Len(branch_copy) - 1) |->
           NodeToken(branch_copy[k + 1], k > node_index)]
          \o (IF is_followed_by_any_command(branch_last_node)
              THEN <<ArgumentToken(CALLBACK, TODO, FALSE)>>
              ELSE <<>>)
  IN  (IF emits THEN <<command_tokens>> ELSE <<>>)
        \o (IF children_to_iterate = <<>> THEN <<>>
            ELSE Concat([i \in DOMAIN children_to_iterate[1] |->
                           list_command_variants(children_to_iterate[1][i],
                                                 branch_copy)]))

\* BTreeMap<String, _>::insert: the value of a key already present is replaced.
RECURSIVE MapInsert(_, _, _)
MapInsert(map, key, value) ==
  IF map = <<>> THEN <<[key |-> key, value |-> value]>>
  ELSE IF Head(map).key = key
  THEN <<[key |-> key, value |-> value]>> \o Tail(map)
  ELSE IF StrLess(key, Head(map).key)
  THEN <<[key |-> key, value |-> value]>> \o map
  ELSE <<Head(map)>> \o MapInsert(Tail(map), key, value)

\* BTreeMap::remove
MapRemove(map, key) == LET Keep(e) == e.key # key IN SelectSeq(map, Keep)

\* Mutant of MapCommandsFrom: a command without variants stays in the map.
RECURSIVE MapCommandsFrom_KeepsEmpty(_, _)
MapCommandsFrom_KeepsEmpty(commands, nodes) ==
  IF nodes = <<>> THEN commands
  ELSE MapCommandsFrom_KeepsEmpty(
         MapInsert(commands, get_name(Head(nodes)),
                   list_command_variants(Head(nodes), <<>>)),
         Tail(nodes))

\* map_commands: the loop over tree.commands, from the map built so far.
RECURSIVE MapCommandsFrom(_, _)
MapCommandsFrom(commands, nodes) ==
  IF nodes = <<>> THEN commands
  ELSE LET node == Head(nodes)
           variants == list_command_variants(node, <<>>)
           inserted == MapInsert(commands, get_name(node), variants)
       IN  MapCommandsFrom(
             IF variants = <<>> THEN MapRemove(inserted, get_name(node))
             ELSE inserted,
             Tail(nodes))

map_commands(tree) == MapCommandsFrom(<<>>, tree)

(***************************************************************************)
(* Emitter (code_generator/languages/typescript.rs)                        *)
(***************************************************************************)

RESERVED_KEYWORDS_JAVASCRIPT ==
  <<<<"b", "r", "e", "a", "k">>,
    <<"c", "a", "s", "e">>,
    <<"c", "a", "t", "c", "h">>,
    <<"c", "l", "a", "s", "s">>,
    <<"c", "o", "n", "s", "t">>,
    <<"c", "o", "n", "t", "i", "n", "u", "e">>,
    <<"d", "e", "b", "u", "g", "g", "e", "r">>,
    <<"d", "e", "f", "a", "u", "l", "t">>,
    <<"d", "e", "l", "e", "t", "e">>,
    <<"d", "o">>,
    <<"e", "l", "s", "e">>,
    <<"e", "x", "p", "o", "r", "t">>,
    <<"e", "x", "t", "e", "n", "d", "s">>,
    <<"f", "a", "l", "s", "e">>,
    <<"f", "i", "n", "a", "l", "l", "y">>,
    <<"f", "o", "r">>,
    <<"f", "u", "n", "c", "t", "i", "o", "n">>,
    <<"i", "f">>,
    <<"i", "m", "p", "o", "r", "t">>,
    <<"i", "n">>,
    <<"i", "n", "s", "t", "a", "n", "c", "e", "o", "f">>,
    <<"n", "e", "w">>,
    <<"n", "u", "l", "l">>,
    <<"r", "e", "t", "u", "r", "n">>,
    <<"s", "u", "p", "e", "r">>,
    <<"s", "w", "i", "t", "c", "h">>,
    <<"t", "h", "i", "s">>,
    <<"t", "h", "r", "o", "w">>,
    <<"t", "r", "u", "e">>,
    <<"t", "r", "y">>,
    <<"t", "y", "p", "e", "o", "f">>,
    <<"v", "a", "r">>,
    <<"v", "o", "i", "d">>,
    <<"w", "h", "i", "l", "e">>,
    <<"w", "i", "t", "h">>,
    <<"l", "e", "t">>,
    <<"s", "t", "a", "t", "i", "c">>,
    <<"y", "i", "e", "l", "d">>,
    <<"a", "w", "a", "i", "t">>,
    <<"e", "n", "u", "m">>,
    <<"i", "m", "p", "l", "e", "m", "e", "n", "t", "s">>,
    <<"i", "n", "t", "e", "r", "f", "a", "c", "e">>,
    <<"p", "a", "c", "k", "a", "g", "e">>,
    <<"p", "r", "i", "v", "a", "t", "e">>,
    <<"p", "r", "o", "t", "e", "c", "t", "e", "d">>,
    <<"p", "u", "b", "l", "i", "c">>,
    <<"a", "r", "g", "u", "m", "e", "n", "t", "s">>,
    <<"e", "v", "a", "l">>>>

Lower == <<"a", "b", "c", "d", "e", "f", "g", "h", "i", "j", "k", "l", "m",
           "n", "o", "p", "q", "r", "s", "t", "u", "v", "w", "x", "y", "z">>
Upper == <<"A", "B", "C", "D", "E", "F", "G", "H", "I", "J", "K", "L", "M",
           "N", "O", "P", "Q", "R", "S", "T", "U", "V", "W", "X", "Y", "Z">>

\* char::to_ascii_uppercase
to_ascii_uppercase(c) ==
  IF \E i \in DOMAIN Lower : Lower[i] = c
  THEN Upper[CHOOSE i \in DOMAIN Lower : Lower[i] = c]
  ELSE c

\* char::to_ascii_lowercase
to_ascii_lowercase(c) ==
  IF \E i \in DOMAIN Upper : Upper[i] = c
  THEN Lower[CHOOSE i \in DOMAIN Upper : Upper[i] = c]
  ELSE c

\* fix_identifier panics when a segment after the first is empty: s[0..1] is
\* out of range.
fix_identifier_panics(identifier) ==
  LET segments == Split(identifier, "-")
  IN  \E i \in 2..Len(segments) : segments[i] = <<>>

\* Mutant of fix_identifier: the first segment is capitalized like the others.
fix_identifier_CapitalizesFirst(identifier) ==
  LET segments == Split(identifier, "-")
      without_dashes ==
        Join([i \in DOMAIN segments |->
                IF segments[i] = <<>> THEN <<>>
                ELSE <<to_ascii_uppercase(segments[i][1])>>
                       \o SubSeq(segments[i], 2, Len(segments[i]))],
             <<>>)
  IN  IF \E k \in DOMAIN RESERVED_KEYWORDS_JAVASCRIPT :
           without_dashes = RESERVED_KEYWORDS_JAVASCRIPT[k]
      THEN without_dashes \o <<"_">>
      ELSE without_dashes

\* fix_identifier, on an identifier it does not panic on.
fix_identifier(identifier) ==
  LET segments == Split(identifier, "-")
      without_dashes ==
        Join([i \in DOMAIN segments |->
                IF i = 1 THEN segments[i]
                ELSE <<to_ascii_uppercase(segments[i][1])>>
                       \o SubSeq(segments[i], 2, Len(segments[i]))],
             <<>>)
  IN  IF \E k \in DOMAIN RESERVED_KEYWORDS_JAVASCRIPT :
           without_dashes = RESERVED_KEYWORDS_JAVASCRIPT[k]
      THEN without_dashes \o <<"_">>
      ELSE without_dashes

fix_object_type_key(key) ==
  IF ContainsChar(key, "-") THEN <<"\"">> \o key \o <<"\"">> ELSE key

Digits == <<"0", "1", "2", "3", "4", "5", "6", "7", "8", "9">>

\* i32::to_string and u32's Display, for a number that is not negative.
RECURSIVE to_string(_)
to_string(n) ==
  IF n < 10 THEN <<Digits[n + 1]>>
  ELSE to_string(n \div 10) \o <<Digits[(n % 10) + 1]>>

Quoted(str) == <<"\"">> \o str \o <<"\"">>

\* Mutant of OptionalMark: no parameter is marked.
OptionalMark_Never(is_optional) == <<>>

OptionalMark(is_optional) == IF is_optional THEN <<"?">> ELSE <<>>

\* Mutant of LiteralIndex: Argument tokens advance the counter too.
LiteralIndex_CountsEveryToken(tokens, k) == k - 1

\* The value literal_index.next() yields at the k-th token: the number of
\* Enum and Literal tokens before it.
LiteralIndex(tokens, k) ==
  Cardinality({j \in 1..(k - 1) : tokens[j].kind # "Argument"})

\* The closure of write_to_typescript that formats one token.
Parameter(tokens, k) ==
  LET token == tokens[k]
      opt == <<"o", "p", "t">> \o to_string(LiteralIndex(tokens, k))
  IN  CASE token.kind = "Argument" ->
             fix_identifier(token.name) \o OptionalMark(token.is_optional)
               \o <<":", " ">> \o Quoted(token.parser)
        [] token.kind = "Enum" ->
             opt \o OptionalMark(token.is_optional) \o <<":", " ">>
               \o Join([i \in DOMAIN token.values |-> Quoted(token.values[i])],
                       <<" ", "|", " ">>)
        [] token.kind = "Literal" ->
             opt \o OptionalMark(token.is_optional) \o <<":", " ">>
               \o Quoted(token.value)

\* The line written for one variant.
SignatureLine(tokens) ==
  <<" ", " ", " ", " ", "(">>
    \o Join([k \in DOMAIN tokens |-> Parameter(tokens, k)], <<",", " ">>)
    \o <<")", ":", " ", "v", "o", "i", "d", ";">>

TypeOpenLine ==
  <<"t", "y", "p", "e", " ", "M", "i", "n", "e", "c", "r", "a", "f", "t",
    "C", "o", "m", "m", "a", "n", "d", "s", " ", "=", " ", "{">>

EntryOpenLine(command_name) ==
  <<" ", " ">> \o fix_object_type_key(command_name) \o <<":", " ", "{">>

EntryCloseLine == <<" ", " ", "}", ";">>

TypeCloseLine == <<"}", ";">>

FactoryLines ==
  <<
    <<"f", "u", "n", "c", "t", "i", "o", "n", " ", "_", "_", "e", "m", "i",
      "t", "M", "a", "c", "r", "o", "<", "C", "o", "m", "m", "a", "n", "d",
      " ", "e", "x", "t", "e", "n", "d", "s", " ", "k", "e", "y", "o", "f",
      " ", "M", "i", "n", "e", "c", "r", "a", "f", "t", "C", "o", "m", "m",
      "a", "n", "d", "s", ">", "(", "c", "o", "m", "m", "a", "n", "d", ":",
      " ", "C", "o", "m", "m", "a", "n", "d", ")", ":", " ", "M", "i", "n",
      "e", "c", "r", "a", "f", "t", "C", "o", "m", "m", "a", "n", "d", "s",
      "[", "t", "y", "p", "e", "o", "f", " ", "c", "o", "m", "m", "a", "n",
      "d", "]", " ", "{">>,
    <<" ", " ", "r", "e", "t", "u", "r", "n", " ", "(", ".", ".", ".", "t",
      "o", "k", "e", "n", "s", ":", " ", "a", "n", "y", "[", "]", ")", " ",
      "=", ">", " ", "c", "o", "n", "s", "o", "l", "e", ".", "l", "o", "g",
      "(", "\"", "$", "\"", ",", " ", ".", ".", ".", "t", "o", "k", "e", "n",
      "s", ")", ";">>,
    <<"}">> >>

ExportLine(command_name) ==
  <<"e", "x", "p", "o", "r", "t", " ", "c", "o", "n", "s", "t", " ">>
    \o fix_identifier(command_name)
    \o <<" ", "=", " ", "_", "_", "e", "m", "i", "t", "M", "a", "c", "r", "o", "(", "\"">>
    \o command_name \o <<"\"", ")", ";">>

\* write_to_typescript panics when fix_identifier does, on an Argument token's
\* name or on a command name.
write_to_typescript_panics(commands) ==
  \E i \in DOMAIN commands :
     \/ fix_identifier_panics(commands[i].key)
     \/ \E v \in DOMAIN commands[i].value :
          \E k \in DOMAIN commands[i].value[v] :
             /\ commands[i].value[v][k].kind = "Argument"
             /\ fix_identifier_panics(commands[i].value[v][k].name)

\* write_to_typescript: the lines written, when it does not panic.
write_to_typescript(commands) ==
  <<TypeOpenLine>>
    \o Concat([i \in DOMAIN commands |->
                 <<EntryOpenLine(commands[i].key)>>
                   \o [v \in DOMAIN commands[i].value |->
                         SignatureLine(commands[i].value[v])]
                   \o <<EntryCloseLine>>])
    \o <<TypeCloseLine, <<>>>>
    \o FactoryLines
    \o <<<<>>>>
    \o [i \in DOMAIN commands |-> ExportLine(commands[i].key)]

(***************************************************************************)
(* Pipeline B (compiler_prototype/src/main.rs): the program AST.           *)
(* An Option is a sequence of at most one element.  A span is its start    *)
(* offset.                                                                 *)
(***************************************************************************)

\* Expression: ArrowFunctionExpression, Identifier, StringLiteral or
\* CallExpression; any other kind is "Other".
ArrowFunctionExpression(start, parameters, body) ==
  [kind |-> "ArrowFunctionExpression", start |-> start, name |-> <<>>,
   callee |-> <<>>, arguments |-> <<>>,
   function |-> <<[id |-> <<>>, params |-> parameters, body |-> <<body>>,
                   span |-> [start |-> start]]>>]

Identifier(start, name) ==
  [kind |-> "Identifier", start |-> start, name |-> name,
   callee |-> <<>>, arguments |-> <<>>, function |-> <<>>]

StringLiteral(start, value) ==
  [kind |-> "StringLiteral", start |-> start, name |-> value,
   callee |-> <<>>, arguments |-> <<>>, function |-> <<>>]

CallExpression(start, callee, arguments) ==
  [kind |-> "CallExpression", start |-> start, name |-> <<>>,
   callee |-> <<callee>>, arguments |-> arguments, function |-> <<>>]

\* Function: id and body are Options.
Function(id, parameters, body, start) ==
  [id |-> id, params |-> parameters, body |-> body, span |-> [start |-> start]]

\* FormalParameters: items are binding patterns, rest an Option of one.
FormalParameters(items, rest) == [items |-> items, rest |-> rest]

\* BindingPattern: a BindingIdentifier, or a destructuring pattern.
BindingIdentifier(name) == [kind |-> "BindingIdentifier", name |-> name]
ObjectPattern == [kind |-> "ObjectPattern", name |-> <<>>]

\* FunctionBody
FunctionBody(directives, statements) ==
  [directives |-> directives, statements |-> statements]

\* Statement: ExpressionStatement, FunctionDeclaration, VariableDeclaration;
\* any other kind is "Other".
ExpressionStatement(expression) ==
  [kind |-> "ExpressionStatement", expression |-> <<expression>>,
   function |-> <<>>, declarations |-> <<>>]

FunctionDeclaration(function) ==
  [kind |-> "FunctionDeclaration", expression |-> <<>>,
   function |-> <<function>>, declarations |-> <<>>]

VariableDeclaration(declarations) ==
  [kind |-> "VariableDeclaration", expression |-> <<>>,
   function |-> <<>>, declarations |-> declarations]

\* VariableDeclarator: id is the identifier name (None for a pattern), init
\* an Option of an Expression.
VariableDeclarator(id, init) == [id |-> id, init |-> init]

EmptyStatement ==
  [kind |-> "Other", expression |-> <<>>, function |-> <<>>,
   declarations |-> <<>>]

(***************************************************************************)
(* Pipeline B: lowering.  A command line is the format string that built   *)
(* it together with the values put into its holes; debug is set for a line *)
(* wrapped by debug_log and macro for one prefixed with `$`.               *)
(***************************************************************************)

Mcfunction(name, body) == [name |-> name, body |-> body]

Line(template, args) ==
  [template |-> template, args |-> args, debug |-> FALSE, macro |-> FALSE]

debug_log(message) == [message EXCEPT !.debug = TRUE]

\* format!("${}", line)
MacroLine(line) == [line EXCEPT !.macro = TRUE]

\* str::to_ascii_lowercase
StrToAsciiLowercase(s) == [i \in DOMAIN s |-> to_ascii_lowercase(s[i])]

SMELTER == <<"s", "m", "e", "l", "t", "e", "r">>
MAIN == <<"m", "a", "i", "n">>

make_function_name(id, span) ==
  IF id # <<>>
  THEN StrToAsciiLowercase(id[1].name) \o <<"_">> \o to_string(span.start)
  ELSE <<"a", "n", "o", "n", "_", "f", "u", "n", "c", "_">> \o to_string(span.start)

make_expression_id(expression) ==
  <<"e", "x", "p", "r", "_">> \o to_string(expression.start)

\* Mutant of compile_command_wrapper_function_body: the wrapper does not
\* return after it has set the TypeError.
compile_command_wrapper_function_body_NoReturn(command) ==
  <<debug_log(Line("entering wrapper function {command}", <<command>>)),
    Line("execute unless data storage smelter:smelter current_arguments[0].string run data modify storage smelter:smelter current_return_value set value {throw: 'TypeError'}", <<>>),
    Line("data modify storage smelter:smelter internal.command_args.tail set from storage smelter:smelter current_arguments[0].string", <<>>),
    debug_log(Line("returning from wrapper function {command}", <<command>>)),
    Line("return run function smelter:{command}_macro with storage smelter:smelter internal.command_args", <<command>>)>>

compile_command_wrapper_function_body(command) ==
  <<debug_log(Line("entering wrapper function {command}", <<command>>)),
    Line("execute unless data storage smelter:smelter current_arguments[0].string run data modify storage smelter:smelter current_return_value set value {throw: 'TypeError'}", <<>>),
    Line("execute unless data storage smelter:smelter current_arguments[0].string run return fail", <<>>),
    Line("data modify storage smelter:smelter internal.command_args.tail set from storage smelter:smelter current_arguments[0].string", <<>>),
    debug_log(Line("returning from wrapper function {command}", <<command>>)),
    Line("return run function smelter:{command}_macro with storage smelter:smelter internal.command_args", <<command>>)>>

compile_command_macro_function(command) ==
  Mcfunction(command \o <<"_", "m", "a", "c", "r", "o">>,
    <<MacroLine(debug_log(Line("entering macro function {command}: tail=$(tail)", <<command>>))),
      MacroLine(Line("{command} $(tail)", <<command>>)),
      debug_log(Line("exiting macro function {command}", <<command>>))>>)

compile_init_function ==
  Mcfunction(<<"i", "n", "i", "t", "i", "a", "l", "i", "z", "e">>,
    <<Line("data modify storage smelter:smelter environment_stack set value []", <<>>),
      Line("data modify storage smelter:smelter current_arguments set value []", <<>>),
      Line("data modify storage smelter:smelter current_environment set value {parent: -1, bindings: {}, evaluations: {}}", <<>>),
      Line("data modify storage smelter:smelter current_return_value set value {}", <<>>),
      Line("data modify storage smelter:smelter internal set value {}", <<>>),
      Line("scoreboard objectives add smelter_internal dummy", <<>>)>>)

compile_bind_argument(pattern) ==
  IF pattern.kind = "BindingIdentifier"
  THEN LET name == pattern.name
       IN  <<debug_log(Line("binding argument {name}", <<name>>)),
             Line("execute unless data storage smelter:smelter current_arguments[0] run data modify storage smelter:smelter current_environment.bindings.{name} set value {undefined: true}", <<name>>),
             Line("execute if data storage smelter:smelter current_arguments[0] run data modify storage smelter:smelter current_environment.bindings.{name} set from storage smelter:smelter current_arguments[0]", <<name>>),
             Line("data remove storage smelter:smelter current_arguments[0]", <<>>),
             debug_log(Line("done binding argument {name}", <<name>>))>>
  ELSE <<>>

\* pattern.argument.get_identifier_name() is the name of an identifier
\* pattern and None, mapped to "", for any other.
compile_bind_rest_argument(pattern) ==
  LET name == IF pattern.kind = "BindingIdentifier" THEN pattern.name ELSE <<>>
  IN  <<debug_log(Line("binding rest argument {name}", <<name>>)),
        Line("data modify storage smelter:smelter current_environment.bindings.{name} set from storage smelter:smelter current_arguments", <<name>>),
        debug_log(Line("done binding rest argument {name}", <<name>>))>>

compile_identifier_resolution ==
  Mcfunction(<<"r", "e", "s", "o", "l", "v", "e">>,
    <<MacroLine(debug_log(Line("entering resolve: identifier=$(identifier) stack_index=$(stack_index) expression_id=$(expression_id)", <<>>))),
      MacroLine(Line("execute if data storage smelter:smelter environment_stack[$(stack_index)].bindings.$(identifier) run data modify storage smelter:smelter current_environment.evaluations.$(expression_id) set from storage smelter:smelter environment_stack[$(stack_index)].bindings.$(identifier)", <<>>)),
      debug_log(Line("resolve: checking if binding exists here", <<>>)),
      MacroLine(Line("execute if data storage smelter:smelter environment_stack[$(stack_index)].bindings.$(identifier) run return 1", <<>>)),
      MacroLine(Line("execute store result score #resolve__parent_index smelter_internal run data get storage smelter:smelter environment_stack[$(stack_index)].parent", <<>>)),
      debug_log(Line("resolve: checking if parent exists", <<>>)),
      Line("execute if score #resolve__parent_index smelter_internal matches ..-1 run return fail", <<>>),
      Line("execute store result storage smelter:smelter internal.resolve_args.stack_index int 1 run scoreboard players get #resolve__parent_index smelter_internal", <<>>),
      debug_log(Line("resolve: calling with parent", <<>>)),
      Line("return run function smelter_resolve with storage smelter:smelter internal.resolve_args", <<>>)>>)

compile_function_invocation ==
  Mcfunction(<<"i", "n", "v", "o", "k", "e">>,
    <<MacroLine(debug_log(Line("entering invoke: name=$(name) environment_index=$(environment_index)", <<>>))),
      MacroLine(Line("data modify storage smelter:smelter current_environment set from storage smelter:smelter environment_stack[$(environment_index)]", <<>>)),
      MacroLine(Line("function smelter:$(name)", <<>>)),
      debug_log(Line("exiting invoke", <<>>))>>)

compile_stack_pop ==
  Mcfunction(<<"p", "o", "p", "_", "s", "t", "a", "c", "k">>,
    <<MacroLine(debug_log(Line("entering pop_stack: stack_size=$(stack_size)", <<>>))),
      MacroLine(Line("data modify storage smelter:smelter current_environment set from storage smelter:smelter environment_stack[$(stack_size)]", <<>>)),
      MacroLine(Line("data remove storage smelter:smelter environment_stack[$(stack_size)]", <<>>)),
      debug_log(Line("exiting pop_stack", <<>>))>>)

\* reduce_compiled: the commands and the subfunctions of the parts, each
\* concatenated in order.
reduce_compiled(v) ==
  <<Concat([i \in DOMAIN v |-> v[i][1]]), Concat([i \in DOMAIN v |-> v[i][2]])>>

RECURSIVE compile_expression(_)
RECURSIVE compile_call_expression(_)

compile_call_expression(expression) ==
  LET callee_expr_id == make_expression_id(expression.callee[1])
      arguments == expression.arguments
  IN  reduce_compiled(
        <<compile_expression(expression.callee[1])>>
          \o [i \in DOMAIN arguments |-> compile_expression(arguments[i])]
          \o [i \in DOMAIN arguments |->
                <<<<Line("data modify storage smelter:smelter current_arguments append from storage smelter:smelter current_environment.evaluations.expr_{}",
                         <<to_string(arguments[i].start)>>)>>,
                  <<>>>>]
          \o <<<<<<debug_log(Line("invoking function {callee_expr_id}", <<callee_expr_id>>)),
                   Line("data modify storage smelter:smelter environment_stack append from storage smelter:smelter current_environment", <<>>),
                   Line("function smelter:invoke with storage smelter:smelter current_environment.evaluations.{callee_expr_id}.function", <<callee_expr_id>>),
                   Line("data modify storage smelter:smelter internal.pop_stack_args set value {stack_size: 0}", <<>>),
                   Line("execute store result storage smelter:smelter internal.pop_stack_args.stack_size int 1 run data get storage smelter:smelter environment_stack", <<>>),
                   Line("function smelter:pop_stack with storage smelter:smelter internal.pop_stack_args", <<>>),
                   Line("data modify storage smelter:smelter current_arguments set value []", <<>>),
                   debug_log(Line("done invoking function {callee_expr_id}", <<callee_expr_id>>))>>,
                 <<>>>>>>)

compile_expression(expression) ==
  LET expression_id == make_expression_id(expression)
  IN  CASE expression.kind = "ArrowFunctionExpression" ->
             LET function_name ==
                   make_function_name(<<>>, expression.function[1].span)
             IN  <<<<debug_log(Line("evaluating arrow function {function_name}", <<function_name>>)),
                     Line("data modify storage smelter:smelter current_environment.evaluations.{expression_id} set value {function: {name: '{function_name}'}}", <<expression_id, function_name>>),
                     Line("execute store result storage smelter:smelter current_environment.evaluations.{expression_id}.function.environment_index int 1 run data get storage smelter:smelter environment_stack", <<expression_id>>),
                     debug_log(Line("done evaluating arrow function {function_name}", <<function_name>>))>>,
                   <<>>>>
        [] expression.kind = "Identifier" ->
             LET identifier == expression.name
             IN  <<<<debug_log(Line("evaluating identifier {identifier}", <<identifier>>)),
                     Line("execute if data storage smelter:smelter current_environment.bindings.{identifier} run data modify storage smelter:smelter current_environment.evaluations.{expression_id} set from storage smelter:smelter current_environment.bindings.{identifier}", <<identifier, expression_id, identifier>>),
                     Line("execute unless data storage smelter:smelter current_environment.evaluations.{expression_id} run data modify storage smelter:smelter internal.resolve_args set value {identifier: '{identifier}', expression_id: '{expression_id}'}", <<expression_id, identifier, expression_id>>),
                     Line("execute unless data storage smelter:smelter current_environment.evaluations.{expression_id} run data modify storage smelter:smelter internal.resolve_args.stack_index set from storage smelter:smelter current_environment.parent", <<expression_id>>),
                     Line("execute unless data storage smelter:smelter current_environment.evaluations.{expression_id} run function smelter:resolve with storage smelter:smelter internal.resolve_args", <<expression_id>>),
                     debug_log(Line("done evaluating identifier {identifier}", <<identifier>>))>>,
                   <<>>>>
        [] expression.kind = "StringLiteral" ->
             LET string_value == expression.name
             IN  <<<<debug_log(Line("evaluating string literal {string_value}", <<string_value>>)),
                     Line("data modify storage smelter:smelter current_environment.evaluations.{expression_id} set value {string: '{string_value}'}", <<expression_id, string_value>>),
                     debug_log(Line("done evaluating string literal {string_value}", <<string_value>>))>>,
                   <<>>>>
        [] expression.kind = "CallExpression" ->
             compile_call_expression(expression)
        [] OTHER -> <<<<>>, <<>>>>

\* The commands and subfunctions of one declarator of a VariableDeclaration.
CompileDeclarator(declarator) ==
  IF declarator.id = <<>> THEN <<<<>>, <<>>>>
  ELSE LET name == declarator.id[1]
           compiled ==
             IF declarator.init # <<>>
             THEN compile_expression(declarator.init[1])
             ELSE <<<<>>, <<>>>>
       IN  <<<<debug_log(Line("evaluating variable declaration {name}", <<name>>))>>
               \o compiled[1]
               \o (IF declarator.init # <<>>
                   THEN <<Line("data modify storage smelter:smelter current_environment.bindings.{name} set from storage smelter:smelter current_environment.evaluations.{expression_id}",
                               <<name, make_expression_id(declarator.init[1])>>)>>
                   ELSE <<Line("data modify storage smelter:smelter current_environment.bindings.{name} set value {undefined: true}", <<name>>)>>)
               \o <<debug_log(Line("done evaluating variable declaration {name}", <<name>>))>>,
             compiled[2]>>

\* A FunctionDeclaration is taken to have an id (function.id is unwrapped).
compile_statement(statement) ==
  CASE statement.kind = "ExpressionStatement" ->
         compile_expression(statement.expression[1])
    [] statement.kind = "FunctionDeclaration" ->
         LET function == statement.function[1]
         IN  IF function.body # <<>>
             THEN LET function_name ==
                        make_function_name(function.id, function.span)
                      function_identifier == function.id[1].name
                  IN  <<<<debug_log(Line("evaluating function declaration {function_name}", <<function_name>>)),
                          Line("data modify storage smelter:smelter current_environment.bindings.{function_identifier} set value {function: {name: '{function_name}'}}", <<function_identifier, function_name>>),
                          Line("execute store result storage smelter:smelter current_environment.bindings.{function_identifier}.function.environment_index int 1 run data get storage smelter:smelter environment_stack", <<function_identifier>>),
                          debug_log(Line("done evaluating function declaration {function_name}", <<function_name>>))>>,
                        <<>>>>
             ELSE <<<<>>, <<>>>>
    [] statement.kind = "VariableDeclaration" ->
         reduce_compiled([i \in DOMAIN statement.declarations |->
                            CompileDeclarator(statement.declarations[i])])
    [] OTHER -> <<<<>>, <<>>>>

\* body.directives.iter().find(..): the first directive that starts with
\* "smelter", as an Option.
CommandDirective(body) ==
  LET matching == {i \in DOMAIN body.directives :
                     StartsWith(body.directives[i], SMELTER)}
  IN  IF matching = {} THEN <<>>
      ELSE <<body.directives[CHOOSE i \in matching :
                               \A j \in matching : i <= j]>>

\* The function lowered without a command directive: binding prelude, body.
CompileFunctionBody(function_name, parameters, body) ==
  LET results == [i \in DOMAIN body.statements |->
                    compile_statement(body.statements[i])]
      compiled_body ==
        <<debug_log(Line("entering function {function_name}", <<function_name>>))>>
          \o Concat([i \in DOMAIN parameters.items |->
                       compile_bind_argument(parameters.items[i])])
          \o (IF parameters.rest # <<>>
              THEN compile_bind_rest_argument(parameters.rest[1])
              ELSE <<>>)
          \o reduce_compiled(results)[1]
          \o <<debug_log(Line("exiting function {function_name}", <<function_name>>))>>
  IN  reduce_compiled(results)[2]
        \o <<Mcfunction(function_name, compiled_body)>>

compile_function(id, parameters, body, span) ==
  LET function_name == make_function_name(id, span)
      command_directive == CommandDirective(body)
      tokens == Split(command_directive[1], " ")
  IN  IF command_directive # <<>> /\ Len(tokens) >= 2
      THEN <<Mcfunction(function_name,
                        compile_command_wrapper_function_body(tokens[2])),
             compile_command_macro_function(tokens[2])>>
      ELSE CompileFunctionBody(function_name, parameters, body)

\* FunctionCompiler::visit_function: the walk does not go into the function.
visit_function(it) ==
  IF it.body # <<>>
  THEN compile_function(it.id, it.params, it.body[1], it.span)
  ELSE <<>>

\* FunctionCompiler::visit_arrow_function_expression, likewise.
visit_arrow_function_expression(it) ==
  compile_function(<<>>, it.params, it.body[1], it.span)

\* walk_program with the FunctionCompiler: what is added to
\* function_compiler.functions while walking one expression.
RECURSIVE WalkExpression(_)
WalkExpression(expression) ==
  CASE expression.kind = "ArrowFunctionExpression" ->
         visit_arrow_function_expression(expression.function[1])
    [] expression.kind = "CallExpression" ->
         WalkExpression(expression.callee[1])
           \o Concat([i \in DOMAIN expression.arguments |->
                        WalkExpression(expression.arguments[i])])
    [] OTHER -> <<>>

WalkStatement(statement) ==
  CASE statement.kind = "ExpressionStatement" ->
         WalkExpression(statement.expression[1])
    [] statement.kind = "FunctionDeclaration" ->
         visit_function(statement.function[1])
    [] statement.kind = "VariableDeclaration" ->
         Concat([i \in DOMAIN statement.declarations |->
                   IF statement.declarations[i].init # <<>>
                   THEN WalkExpression(statement.declarations[i].init[1])
                   ELSE <<>>])
    [] OTHER -> <<>>

walk_program(program) ==
  Concat([i \in DOMAIN program.body |-> WalkStatement(program.body[i])])

\* compile_program: main_function_body and subfunctions.
CompileMain(program) ==
  LET reduced == reduce_compiled([i \in DOMAIN program.body |->
                                    compile_statement(program.body[i])])
  IN  <<<<debug_log(Line("entering main", <<>>))>>
          \o reduced[1]
          \o <<debug_log(Line("exiting main", <<>>))>>,
        reduced[2]>>

\* compile_program: the chain collected into the data pack.
CollectDataPack(functions, main_function_body, subfunctions) ==
  functions
    \o <<compile_init_function, compile_identifier_resolution,
         compile_function_invocation, compile_stack_pop>>
    \o subfunctions
    \o <<Mcfunction(MAIN, main_function_body)>>

compile_program(program) ==
  LET main == CompileMain(program)
  IN  CollectDataPack(walk_program(program), main[1], main[2])

(***************************************************************************)
(* Inputs of pipeline A: the trees the TreeBuilder hands to the pipeline.  *)
(* JSON object keys are arbitrary strings, so a name may hold any          *)
(* character, `|` included.                                                *)
(***************************************************************************)

\* Longest redirect path of an input tree.
MaxPathLen == 1

\* Most top-level commands of an input tree.
MaxCommands == 2

NameA == <<"a">>
NameB == <<"b">>
NameAB == <<"a", "|", "b">>
NameP == <<"p">>
NameQ == <<"q">>
NameX == <<"x">>
NameT == <<"t">>
NameN == <<"n">>
NameDone == <<"d", "o", "n", "e">>
NameSeed == <<"s", "e", "e", "d">>
ParserInteger == <<"b", "r", "i", "g", "a", "d", "i", "e", "r", ":", "i", "n", "t", "e", "g", "e", "r">>

\* properties: None, and Some of a map with one entry.
NoProperties == <<>>
Properties(min) == << << <<<<"m", "i", "n">>, min>> >> >>

\* The BTreeSet holding the given nodes.
RECURSIVE NodeSet(_)
NodeSet(nodes) ==
  IF nodes = <<>> THEN <<>>
  ELSE NodeSetInsert(NodeSet(SubSeq(nodes, 1, Len(nodes) - 1)),
                     nodes[Len(nodes)])

RECURSIVE PathsOfLen(_)
PathsOfLen(n) ==
  IF n = 0 THEN {<<>>}
  ELSE {<<h>> \o t : h \in {EXECUTE, NameX}, t \in PathsOfLen(n - 1)}

RedirectPaths == UNION {PathsOfLen(n) : n \in 0..MaxPathLen}

\* What an input tree may hold under a name at depth 2: nothing (<<>>) or one
\* node (<<node>>).
LeafChoices(name) ==
  {<<>>}
    \cup (IF name \in {NameA, NameB}
          THEN {<<Literal(name, TRUE, Nodes(<<>>))>>}
          ELSE {<<Literal(name, FALSE, Nodes(<<>>))>>,
                <<Argument(name, FALSE, ParserInteger, NoProperties,
                           Redirect(<<NameX>>))>>}
                 \cup {<<Argument(name, TRUE, ParserInteger, Properties(m),
                                  Nodes(<<>>))>> : m \in 0..1})

LeafSets ==
  {NodeSet(a \o ab \o b) :
     a \in LeafChoices(NameA), ab \in LeafChoices(NameAB),
     b \in LeafChoices(NameB)}

\* What an input tree may hold under a name at depth 1.
InnerChoices(name) ==
  {<<>>}
    \cup {<<Literal(name, e, Nodes(c))>> : e \in BOOLEAN, c \in LeafSets}
    \cup {<<Literal(name, e, Redirect(r))>> : e \in BOOLEAN, r \in RedirectPaths}

InnerSets ==
  {NodeSet(p \o q) : p \in InnerChoices(NameP), q \in InnerChoices(NameQ)}

\* Trees of one command with two levels below it.
DeepTrees ==
  {<<Literal(name, e, Nodes(c))>> :
     name \in {EXECUTE, NameX}, e \in BOOLEAN, c \in InnerSets}

\* A command without grandchildren.
FlatChoices(name) ==
  {<<>>,
   <<Literal(name, TRUE, Nodes(<<>>))>>,
   <<Literal(name, FALSE, Nodes(<<>>))>>,
   <<Literal(name, FALSE, Redirect(<<EXECUTE>>))>>,
   <<Literal(name, TRUE, Nodes(<<Literal(NameA, FALSE, Redirect(<<NameX>>))>>))>>}

\* Trees of up to MaxCommands commands.
FlatTrees ==
  {t \in {NodeSet(e \o s \o x) :
            e \in FlatChoices(EXECUTE), s \in FlatChoices(NameSeed),
            x \in FlatChoices(NameX)} :
     Len(t) <= MaxCommands}

\* Scenario P-A-1: the bare executable command `seed`.
ScenarioSeed == <<Literal(NameSeed, TRUE, Nodes(<<>>))>>

\* Scenario P-A-3: command `t`, Argument `n`, executable Literal `done`.
ScenarioDone ==
  <<Literal(NameT, FALSE, Nodes(<<
      Argument(NameN, FALSE, ParserInteger, NoProperties, Nodes(<<
        Literal(NameDone, TRUE, Nodes(<<>>))>>))>>))>>

\* Two commands, one named by a reserved word of JavaScript and one by that
\* word followed by an underscore.
NameDo == <<"d", "o">>
NameDoUnderscore == <<"d", "o", "_">>

ReservedAndSuffixed ==
  <<Literal(NameDo, TRUE, Nodes(<<>>)),
    Literal(NameDoUnderscore, TRUE, Nodes(<<>>))>>

InputTrees ==
  DeepTrees \cup FlatTrees \cup {ScenarioSeed, ScenarioDone, ReservedAndSuffixed}

(***************************************************************************)
(* Pipeline A as a state machine: main.rs runs the stages in order; the    *)
(* whole pipeline is then run a second time on the same input.             *)
(***************************************************************************)

VARIABLES
  tree,            \* the BrigadierTree handed to the pipeline
  stage,           \* the last stage that returned, or "panicked"
  consolidated,    \* result of consolidate_literals_into_enums
  reconsolidated,  \* result of consolidating `consolidated` once more
  rewritten,       \* result of handle_execute_command
  commands,        \* result of map_commands
  text,            \* lines written by write_to_typescript
  run,             \* 1 for the first run of the pipeline, 2 for the second
  first,           \* what the first run produced, once the second started
  program,         \* pipeline B: the parsed Program
  phase,           \* pipeline B: "parsed", "compiled" or "written"
  data_pack,       \* pipeline B: result of compile_program
  files            \* pipeline B: the .mcfunction files written, by name

varsA ==
  <<tree, stage, consolidated, reconsolidated, rewritten, commands, text,
    run, first>>

varsB == <<program, phase, data_pack, files>>

VARIABLES
  json,            \* TreeBuilder: the deserialized BrigadierJsonNode
  build_stage,     \* TreeBuilder: "parsed", then "built"
  built            \* TreeBuilder: the Result of the conversion

varsT == <<json, build_stage, built>>

VARIABLES
  identifier,      \* fix_identifier: the String it is given
  fix_stage,       \* "given", "fixed", "refixed" or "panicked"
  fixed,           \* fix_identifier(identifier)
  refixed          \* fix_identifier(fixed)

varsF == <<identifier, fix_stage, fixed, refixed>>

VARIABLES
  cache_files,     \* cache: the content of data/<version>.json, if it exists
  commits,         \* cache: the commits the repository lists, newest first
  gets,            \* cache: how many times get was called
  fetches,         \* cache: how many times the repository was called
  last_get         \* cache: the last call of get and what it returned

varsC == <<cache_files, commits, gets, fetches, last_get>>

VARIABLES
  functions,       \* runtime: the functions of the loaded data pack, by name
  storage,         \* runtime: the storage smelter:smelter
  score,           \* runtime: the score of #resolve__parent_index, if set
  frames,          \* runtime: the functions being run, innermost last
  runtime_stage,   \* runtime: "loaded", "initializing", "running" or "done"
  last_call        \* runtime: the stack around the last finished call

varsR == <<functions, storage, score, frames, runtime_stage, last_call>>

\* The variables of the components other than pipelines A and B.
varsRest == <<varsT, varsF, varsC, varsR>>

vars == <<varsA, varsB, varsRest>>

\* The variables each of the other components leaves alone.
varsExceptT == <<varsA, varsB, varsF, varsC, varsR>>
varsExceptF == <<varsA, varsB, varsT, varsC, varsR>>
varsExceptC == <<varsA, varsB, varsT, varsF, varsR>>
varsExceptR == <<varsA, varsT, varsF, varsC>>

\* The TreeBuilder before it is given a JSON tree.
IdleT ==
  /\ json = <<>>
  /\ build_stage = "idle"
  /\ built = <<>>

\* fix_identifier before it is given a String.
IdleF ==
  /\ identifier = <<>>
  /\ fix_stage = "idle"
  /\ fixed = <<>>
  /\ refixed = <<>>

\* The cache before it is constructed.
IdleC ==
  /\ cache_files = <<>>
  /\ commits = <<>>
  /\ gets = 0
  /\ fetches = 0
  /\ last_get = <<>>

\* The game before the data pack is loaded.
IdleR ==
  /\ functions = <<>>
  /\ storage = <<>>
  /\ score = <<>>
  /\ frames = <<>>
  /\ runtime_stage = "idle"
  /\ last_call = <<>>

IdleRest == IdleT /\ IdleF /\ IdleC /\ IdleR

\* Pipeline B before it is given a program.
IdleB ==
  /\ program = [body |-> <<>>]
  /\ phase = "idle"
  /\ data_pack = <<>>
  /\ files = <<>>

Outputs ==
  [stage |-> stage, consolidated |-> consolidated, rewritten |-> rewritten,
   commands |-> commands, text |-> text]

NoOutputs ==
  [stage |-> "built", consolidated |-> <<>>, rewritten |-> <<>>,
   commands |-> <<>>, text |-> <<>>]

Init ==
  /\ tree \in InputTrees
  /\ stage = "built"
  /\ consolidated = <<>>
  /\ reconsolidated = <<>>
  /\ rewritten = <<>>
  /\ commands = <<>>
  /\ text = <<>>
  /\ run = 1
  /\ first = NoOutputs
  /\ IdleB
  /\ IdleRest

\* CommandMap::from, first stage.
Consolidate ==
  /\ stage = "built"
  /\ consolidated' \in consolidate_literals_into_enums(tree)
  /\ stage' = "consolidated"
  /\ UNCHANGED <<tree, reconsolidated, rewritten, commands, text, run, first>>
  /\ UNCHANGED <<varsB, varsRest>>

\* The LiteralConsolidator applied to its own output.
ConsolidateAgain ==
  /\ stage = "consolidated"
  /\ run = 1
  /\ reconsolidated' \in consolidate_literals_into_enums(consolidated)
  /\ stage' = "reconsolidated"
  /\ UNCHANGED <<tree, consolidated, rewritten, commands, text, run, first>>
  /\ UNCHANGED <<varsB, varsRest>>

\* CommandMap::from, second stage.
HandleExecute ==
  /\ stage = "consolidated"
  /\ IF handle_execute_command_panics(consolidated)
     THEN stage' = "panicked" /\ UNCHANGED rewritten
     ELSE /\ rewritten' = handle_execute_command(consolidated)
          /\ stage' = "rewritten"
  /\ UNCHANGED <<tree, consolidated, reconsolidated, commands, text, run, first>>
  /\ UNCHANGED <<varsB, varsRest>>

\* CommandMap::from, third stage.
MapCommands ==
  /\ stage = "rewritten"
  /\ commands' = map_commands(rewritten)
  /\ stage' = "mapped"
  /\ UNCHANGED <<tree, consolidated, reconsolidated, rewritten, text, run, first>>
  /\ UNCHANGED <<varsB, varsRest>>

\* CodeGenerator::write_typescript
WriteTypescript ==
  /\ stage = "mapped"
  /\ IF write_to_typescript_panics(commands)
     THEN stage' = "panicked" /\ UNCHANGED text
     ELSE /\ text' = write_to_typescript(commands)
          /\ stage' = "written"
  /\ UNCHANGED <<tree, consolidated, reconsolidated, rewritten, commands, run, first>>
  /\ UNCHANGED <<varsB, varsRest>>

\* The program is started again on the same input.
RunAgain ==
  /\ run = 1
  /\ stage \in {"written", "panicked"}
  /\ first' = Outputs
  /\ run' = 2
  /\ stage' = "built"
  /\ consolidated' = <<>>
  /\ rewritten' = <<>>
  /\ commands' = <<>>
  /\ text' = <<>>
  /\ UNCHANGED <<tree, reconsolidated>>
  /\ UNCHANGED <<varsB, varsRest>>

Next ==
  \/ Consolidate
  \/ ConsolidateAgain
  \/ HandleExecute
  \/ MapCommands
  \/ WriteTypescript
  \/ RunAgain

Spec == Init /\ [][Next]_vars

(***************************************************************************)
(* Properties of pipeline A                                                *)
(***************************************************************************)

HasNodes(node) == node.children.tag = "Nodes"

\* The children of a node as a set (empty under a Redirect).
ChildrenOf(node) ==
  {node.children.nodes[i] : i \in DOMAIN node.children.nodes}

HasChildNamed(node, name) == \E c \in ChildrenOf(node) : c.name = name

ChildNamed(node, name) == CHOOSE c \in ChildrenOf(node) : c.name = name

\* The node and all nodes below it.
RECURSIVE SubtreeNodes(_)
SubtreeNodes(node) ==
  {node} \cup UNION {SubtreeNodes(c) : c \in ChildrenOf(node)}

TreeNodes(t) == UNION {SubtreeNodes(t[i]) : i \in DOMAIN t}

Finished == stage \in {"written", "panicked"}

\* C1 (as claimed): two runs of the pipeline on the same input end the same
\* way, with the same rewritten trees, the same CommandMap and the same text.
C1_Determinism == (run = 2 /\ Finished) => Outputs = first

\* The path to an executable node: variant, name and parser of each node on it.
PathStep(node) == [kind |-> node.kind, name |-> node.name, parser |-> node.parser]

\* The paths from below `node` to the executable nodes of its subtree (the
\* empty path when `node` itself is executable).
RECURSIVE ExecutablePaths(_)
ExecutablePaths(node) ==
  (IF is_executable(node) THEN {<<>>} ELSE {})
    \cup UNION {{<<PathStep(c)>> \o path : path \in ExecutablePaths(c)} :
                  c \in ChildrenOf(node)}

TokenMatches(token, step) ==
  CASE step.kind = "Literal" ->
         \/ token.kind = "Literal" /\ token.value = step.name
         \/ /\ token.kind = "Enum"
            /\ \E j \in DOMAIN token.values : token.values[j] = step.name
    [] step.kind = "Argument" ->
         /\ token.kind = "Argument"
         /\ token.name = step.name
         /\ token.parser = step.parser
    [] OTHER -> FALSE

VariantMatches(tokens, path) ==
  /\ Len(tokens) >= Len(path)
  /\ \A k \in DOMAIN path : TokenMatches(tokens[k], path[k])
  /\ \A k \in (Len(path) + 1)..Len(tokens) : tokens[k].is_optional

HasVariantFor(map, name, path) ==
  \E i \in DOMAIN map :
     /\ map[i].key = name
     /\ \E v \in DOMAIN map[i].value : VariantMatches(map[i].value[v], path)

\* C2 (as claimed): every executable node of the input tree has a variant of
\* its command whose tokens match the path to it, further tokens being
\* optional.
C2_NoLossExecutability ==
  stage \in {"mapped", "written"} =>
    \A i \in DOMAIN tree :
       \A path \in ExecutablePaths(tree[i]) :
          HasVariantFor(commands, get_name(tree[i]), path)

\* The children sets consolidation can give an input node.
ConsolidatedChildren(node) ==
  {o[1].children : o \in consolidate_literals_into_enums_inner(node)}

\* Every Enum below `out` was merged from Literals of `in` that have its
\* executable flag and whose consolidated subtree is the Enum's.
RECURSIVE MergeSound(_, _)
MergeSound(in, out) ==
  \A oc \in ChildrenOf(out) :
     IF oc.kind = "Enum"
     THEN \A j \in DOMAIN oc.values :
            /\ HasChildNamed(in, oc.values[j])
            /\ LET ic == ChildNamed(in, oc.values[j])
               IN  /\ ic.executable = oc.executable
                   /\ oc.children \in ConsolidatedChildren(ic)
                   /\ MergeSound(ic, oc)
     ELSE HasChildNamed(in, oc.name) => MergeSound(ChildNamed(in, oc.name), oc)

\* C3 (as claimed): the Literals merged into one Enum have the same executable
\* flag and identical consolidated subtrees, argument properties included.
C3_MergeSoundness ==
  stage = "consolidated" =>
    \A i \in DOMAIN tree : MergeSound(tree[i], consolidated[i])

\* C4 (as claimed): consolidating a consolidated tree gives the same tree.
C4_Idempotence == stage = "reconsolidated" => reconsolidated = consolidated

\* Every Enum below `out` has at least two values, each the name of a Literal
\* child of the input node `in` that `out` was built from.
RECURSIVE EnumsCorrect(_, _)
EnumsCorrect(in, out) ==
  \A oc \in ChildrenOf(out) :
     IF oc.kind = "Enum"
     THEN /\ Len(oc.values) >= 2
          /\ \A j \in DOMAIN oc.values :
               /\ \E ic \in ChildrenOf(in) :
                     ic.kind = "Literal" /\ ic.name = oc.values[j]
               /\ EnumsCorrect(ChildNamed(in, oc.values[j]), oc)
     ELSE HasChildNamed(in, oc.name) => EnumsCorrect(ChildNamed(in, oc.name), oc)

\* C5: every Enum of the consolidated tree has at least two values, and each
\* value names a Literal child of the same parent in the input tree.
C5_EnumCorrectness ==
  stage = "consolidated" =>
    \A i \in DOMAIN tree : EnumsCorrect(tree[i], consolidated[i])

\* C5 witness: consolidation produced an Enum inside an Enum.
C5_Witness ==
  /\ stage = "consolidated"
  /\ \E n \in TreeNodes(consolidated) :
        n.kind = "Enum" /\ \E c \in ChildrenOf(n) : c.kind = "Enum"

\* C8 (as claimed): in scenario P-A-3 the only variant of `t` is
\* [Argument n, Literal done] with `done` optional, written as
\* (n: "brigadier:integer", opt1?: "done"): void.
C8_ScenarioAsClaimed ==
  (tree = ScenarioDone /\ stage = "written") =>
    /\ commands =
         <<[key |-> NameT,
            value |-> << <<ArgumentToken(NameN, ParserInteger, FALSE),
                           LiteralToken(NameDone, TRUE)>> >>]>>
    /\ text[3] =
         <<" ", " ", " ", " ", "(", "n", ":", " ", "\"", "b", "r", "i", "g",
           "a", "d", "i", "e", "r", ":", "i", "n", "t", "e", "g", "e", "r",
           "\"", ",", " ", "o", "p", "t", "1", "?", ":", " ", "\"", "d", "o",
           "n", "e", "\"", ")", ":", " ", "v", "o", "i", "d", ";">>

\* C8 (amended): in scenario P-A-3 the only variant of `t` is
\* [Argument n, Literal done], neither token optional, written as
\* (n: "brigadier:integer", opt0: "done"): void.
C8_Scenario ==
  (tree = ScenarioDone /\ stage = "written") =>
    /\ commands =
         <<[key |-> NameT,
            value |-> << <<ArgumentToken(NameN, ParserInteger, FALSE),
                           LiteralToken(NameDone, FALSE)>> >>]>>
    /\ text[3] =
         <<" ", " ", " ", " ", "(", "n", ":", " ", "\"", "b", "r", "i", "g",
           "a", "d", "i", "e", "r", ":", "i", "n", "t", "e", "g", "e", "r",
           "\"", ",", " ", "o", "p", "t", "0", ":", " ", "\"", "d", "o", "n",
           "e", "\"", ")", ":", " ", "v", "o", "i", "d", ";">>

\* C8 witness: the pipeline has written the text for scenario P-A-3.
C8_Witness == tree = ScenarioDone /\ stage = "written"

\* `after` is `before` with every Redirect below it replaced: by the Literal
\* `run` when the path starts with `execute`, by no children otherwise.
RECURSIVE RewrittenAs(_, _)
RewrittenAs(before, after) ==
  /\ after.kind = before.kind
  /\ after.name = before.name
  /\ after.executable = before.executable
  /\ after.parser = before.parser
  /\ after.values = before.values
  /\ after.children.tag = "Nodes"
  /\ IF before.children.tag = "Redirect"
     THEN after.children.nodes =
            (IF before.children.path # <<>> /\ before.children.path[1] = EXECUTE
             THEN <<Literal(RUN, FALSE, Nodes(<<>>))>>
             ELSE <<>>)
     ELSE /\ Len(after.children.nodes) = Len(before.children.nodes)
          /\ \A i \in DOMAIN before.children.nodes :
               RewrittenAs(before.children.nodes[i], after.children.nodes[i])

\* C9: once handle_execute_command has returned, the subtree of the command
\* `execute` has no Redirect: one that started with `execute` is a Nodes set of
\* the single Literal `run`, any other an empty Nodes set, and every node
\* keeps its variant, name, executable flag, parser and values.
C9_ExecuteRewrite ==
  stage \in {"rewritten", "mapped", "written"} =>
    /\ Len(rewritten) = Len(consolidated)
    /\ \A i \in DOMAIN rewritten :
         get_name(consolidated[i]) = EXECUTE =>
           RewrittenAs(consolidated[i], rewritten[i])

\* C9 witness: the rewrite returned on an `execute` command that had a
\* Redirect to `execute` and a Redirect to somewhere else.
C9_Witness ==
  /\ stage = "rewritten"
  /\ \E i \in DOMAIN consolidated :
        /\ get_name(consolidated[i]) = EXECUTE
        /\ \E m, n \in SubtreeNodes(consolidated[i]) :
              /\ m.children.tag = "Redirect"
              /\ m.children.path[1] = EXECUTE
              /\ n.children.tag = "Redirect"
              /\ n.children.path[1] # EXECUTE

\* The traversal of a command reaches a node at which a variant is emitted.
RECURSIVE HasEmitPoint(_)
HasEmitPoint(node) ==
  \/ is_executable(node)
  \/ is_followed_by_any_command(node)
  \/ \E c \in ChildrenOf(node) : HasEmitPoint(c)

IsKey(map, name) == \E i \in DOMAIN map : map[i].key = name

\* C10: every key of the CommandMap has at least one variant; a top-level
\* command is a key exactly when a variant is emitted in its subtree; an
\* executable top-level command without children has the one variant [].
C10_EmptyCommands ==
  stage \in {"mapped", "written"} =>
    /\ \A i \in DOMAIN commands :
         /\ commands[i].value # <<>>
         /\ \E j \in DOMAIN rewritten : get_name(rewritten[j]) = commands[i].key
    /\ \A j \in DOMAIN rewritten :
         /\ IsKey(commands, get_name(rewritten[j])) <=> HasEmitPoint(rewritten[j])
         /\ (is_executable(rewritten[j]) /\ rewritten[j].children = Nodes(<<>>))
              => \E i \in DOMAIN commands :
                    /\ commands[i].key = get_name(rewritten[j])
                    /\ commands[i].value = << <<>> >>

\* C10 witness: of two top-level commands, one emitted nothing and is no key,
\* the other is a bare executable mapped to [[]].
C10_Witness ==
  /\ stage = "mapped"
  /\ \E j \in DOMAIN rewritten : ~IsKey(commands, get_name(rewritten[j]))
  /\ \E i \in DOMAIN commands : commands[i].value = << <<>> >>

\* The `run` sentinel: a non-executable node with an empty Nodes child set.
IsRunSentinel(node) ==
  /\ ~node.executable
  /\ node.children.tag = "Nodes"
  /\ node.children.nodes = <<>>

\* The nodes the depth-first traversal of a command makes its current node,
\* in order, each as the branch that ends with it.  After a node at which a
\* variant is emitted the traversal goes on below its optional suffix.
RECURSIVE Visits(_, _)
Visits(node, branch) ==
  LET path == Append(branch, node)
      extended ==
        IF node.executable \/ IsRunSentinel(node)
        THEN path \o OptionalCandidates(node)
        ELSE path
      branch_last_node == extended[Len(extended)]
  IN  <<path>>
        \o (IF branch_last_node.children.tag = "Nodes"
            THEN Concat([i \in DOMAIN branch_last_node.children.nodes |->
                           Visits(branch_last_node.children.nodes[i], extended)])
            ELSE <<>>)

EmitsAt(path) ==
  path[Len(path)].executable \/ IsRunSentinel(path[Len(path)])

\* The tokens of the nodes of a branch below the command, none optional.
RequiredTokens(path) ==
  [k \in 1..(Len(path) - 1) |-> NodeToken(path[k + 1], FALSE)]

VariantsOf(map, name) ==
  IF IsKey(map, name)
  THEN map[CHOOSE i \in DOMAIN map : map[i].key = name].value
  ELSE <<>>

\* C20: the variants of a command are, in order, one for each current node
\* of the traversal that is executable or a `run` sentinel, and none for any
\* other; the variant of a sentinel is the required tokens of its branch and
\* then the callback token; any other variant has no token but those of its
\* branch and its optional suffix, and none but those of its branch when the
\* children of its node are a Redirect.
C20_EmitRuleAndCallback ==
  stage \in {"mapped", "written"} =>
    \A j \in DOMAIN rewritten :
       LET emitting == SelectSeq(Visits(rewritten[j], <<>>), EmitsAt)
           variants == VariantsOf(commands, get_name(rewritten[j]))
       IN  /\ Len(variants) = Len(emitting)
           /\ \A i \in DOMAIN variants :
                 LET path == emitting[i]
                     node == path[Len(path)]
                     tokens == variants[i]
                 IN  /\ Len(tokens) >= Len(path) - 1
                     /\ SubSeq(tokens, 1, Len(path) - 1) = RequiredTokens(path)
                     /\ IF IsRunSentinel(node)
                        THEN tokens = RequiredTokens(path)
                                        \o <<ArgumentToken(CALLBACK, TODO, FALSE)>>
                        ELSE /\ Len(tokens) =
                                  Len(path) - 1 + Len(OptionalCandidates(node))
                             /\ \A k \in Len(path)..Len(tokens) :
                                   tokens[k].is_optional
                     /\ node.children.tag = "Redirect" =>
                          tokens = RequiredTokens(path)

\* C20 witness: a command has a variant emitted at a `run` sentinel below it,
\* and a command has one emitted at a node below it whose children are a
\* Redirect.
C20_Witness ==
  /\ stage = "mapped"
  /\ \E j \in DOMAIN rewritten :
        \E i \in DOMAIN Visits(rewritten[j], <<>>) :
           LET path == Visits(rewritten[j], <<>>)[i]
           IN  Len(path) > 1 /\ IsRunSentinel(path[Len(path)])
  /\ \E j \in DOMAIN rewritten :
        \E i \in DOMAIN Visits(rewritten[j], <<>>) :
           LET path == Visits(rewritten[j], <<>>)[i]
           IN  /\ Len(path) > 1
               /\ EmitsAt(path)
               /\ path[Len(path)].children.tag = "Redirect"

\* The downward paths from a node: sequences of nodes, the first a child of
\* the node and each later one a child of the one before it.
RECURSIVE DownPaths(_)
DownPaths(node) ==
  {<<>>}
    \cup (IF node.children.tag = "Nodes"
          THEN UNION {{<<node.children.nodes[i]>> \o p :
                         p \in DownPaths(node.children.nodes[i])} :
                      i \in DOMAIN node.children.nodes}
          ELSE {})

\* A chain below a node: each of its nodes is the only child of its
\* predecessor and is executable.
IsOnlyChildChain(node, chain) ==
  \A k \in DOMAIN chain :
     LET predecessor == IF k = 1 THEN node ELSE chain[k - 1]
     IN  /\ predecessor.children.tag = "Nodes"
         /\ Len(predecessor.children.nodes) = 1
         /\ chain[k].executable

MaximalChain(node) ==
  CHOOSE chain \in DownPaths(node) :
     /\ IsOnlyChildChain(node, chain)
     /\ \A other \in DownPaths(node) :
           IsOnlyChildChain(node, other) => Len(other) <= Len(chain)

\* The traversal as the claim has it: the current nodes in order, each as
\* the branch that ends with it; after a node at which a variant is emitted
\* the traversal resumes at the children of the last node of its chain.
RECURSIVE Resumes(_, _)
Resumes(node, branch) ==
  LET path == Append(branch, node)
      extended == IF EmitsAt(path) THEN path \o MaximalChain(node) ELSE path
      last == extended[Len(extended)]
  IN  <<path>>
        \o (IF last.children.tag = "Nodes"
            THEN Concat([i \in DOMAIN last.children.nodes |->
                           Resumes(last.children.nodes[i], extended)])
            ELSE <<>>)

\* C21: a variant emitted at node N has the tokens of the branch up to and
\* including N, none optional, then the tokens of the maximal chain below N
\* of executable only children, all optional, and no other optional token;
\* the nodes of the chain get no variant of their own and the traversal
\* resumes at the children of the last node of the chain.
C21_OptionalSuffix ==
  stage \in {"mapped", "written"} =>
    \A j \in DOMAIN rewritten :
       LET emitting == SelectSeq(Resumes(rewritten[j], <<>>), EmitsAt)
           variants == VariantsOf(commands, get_name(rewritten[j]))
       IN  /\ Len(variants) = Len(emitting)
           /\ \A i \in DOMAIN variants :
                 LET path == emitting[i]
                     chain == MaximalChain(path[Len(path)])
                     tokens == variants[i]
                     required == Len(path) - 1
                 IN  /\ Len(tokens) >= required + Len(chain)
                     /\ SubSeq(tokens, 1, required) = RequiredTokens(path)
                     /\ \A k \in DOMAIN chain :
                           tokens[required + k] = NodeToken(chain[k], TRUE)
                     /\ \A k \in DOMAIN tokens :
                           tokens[k].is_optional <=>
                             (required < k /\ k <= required + Len(chain))

\* C21 witness: a variant emitted at an executable command with a chain of
\* one node whose children, two of them, each get a variant that holds the
\* node of the chain as a token that is not optional.
C21_Witness ==
  /\ stage = "mapped"
  /\ \E j \in DOMAIN rewritten :
        LET node == rewritten[j]
            chain == MaximalChain(node)
            variants == VariantsOf(commands, get_name(node))
        IN  /\ node.executable
            /\ Len(chain) = 1
            /\ Len(chain[1].children.nodes) = 2
            /\ Len(variants) >= 3
            /\ variants[1] = <<NodeToken(chain[1], TRUE)>>
            /\ variants[2][1] = NodeToken(chain[1], FALSE)

\* C29: in every variant of the CommandMap no token that is not optional
\* follows an optional token; a variant that ends with the callback token
\* has no optional token.
C29_OptionalTokensFormSuffix ==
  stage \in {"mapped", "written"} =>
    \A c \in DOMAIN commands :
       \A i \in DOMAIN commands[c].value :
          LET tokens == commands[c].value[i]
          IN  /\ \A k, l \in DOMAIN tokens :
                    (k < l /\ tokens[k].is_optional) => tokens[l].is_optional
              /\ (tokens # <<>>
                    /\ tokens[Len(tokens)] = ArgumentToken(CALLBACK, TODO, FALSE)) =>
                   \A k \in DOMAIN tokens : ~tokens[k].is_optional

\* C29 witness: a map with a variant of a required token and then an
\* optional one, and with a variant that ends with the callback token.
C29_Witness ==
  /\ stage = "mapped"
  /\ \E c \in DOMAIN commands :
        \E i \in DOMAIN commands[c].value :
           LET tokens == commands[c].value[i]
           IN  /\ Len(tokens) = 2
               /\ ~tokens[1].is_optional
               /\ tokens[2].is_optional
  /\ \E c \in DOMAIN commands :
        \E i \in DOMAIN commands[c].value :
           LET tokens == commands[c].value[i]
           IN  /\ Len(tokens) >= 2
               /\ tokens[Len(tokens)] = ArgumentToken(CALLBACK, TODO, FALSE)

\* C22 (as claimed): no Enum of the consolidated tree has a Redirect as its
\* children, and every Literal of the input tree whose children are a
\* Redirect is in the consolidated tree as a Literal of the same name,
\* executable flag and redirect path.
C22_RedirectsNotConsolidated ==
  stage = "consolidated" =>
    /\ \A n \in TreeNodes(consolidated) :
          n.kind = "Enum" => n.children.tag # "Redirect"
    /\ \A n \in TreeNodes(tree) :
          (n.kind = "Literal" /\ n.children.tag = "Redirect") =>
            \E m \in TreeNodes(consolidated) :
               /\ m.kind = "Literal"
               /\ m.name = n.name
               /\ m.executable = n.executable
               /\ m.children = n.children

\* The index in the text of the signature line of the v-th variant of the
\* c-th command: after the opening line, and the lines of the commands
\* before it.
RECURSIVE LinesBefore(_)
LinesBefore(c) ==
  IF c = 1 THEN 1
  ELSE LinesBefore(c - 1) + Len(commands[c - 1].value) + 2

SignatureIndex(c, v) == LinesBefore(c) + 1 + v

\* The parameter names read from a signature line `    (<name>: <type>, ...):
\* void;`: what stands before the first colon of each parameter.
ParameterNames(line) ==
  LET inner == SubSeq(line, 6, Len(line) - 8)
      pieces == Split(inner, ",")
      Stripped(piece) ==
        IF piece # <<>> /\ piece[1] = " " THEN Tail(piece) ELSE piece
  IN  IF inner = <<>> THEN <<>>
      ELSE [k \in DOMAIN pieces |-> Split(Stripped(pieces[k]), ":")[1]]

\* The name the claim gives the k-th token of a variant.
ClaimedName(tokens, k) ==
  (IF tokens[k].kind = "Argument"
   THEN fix_identifier(tokens[k].name)
   ELSE <<"o", "p", "t">>
          \o to_string(Cardinality({j \in 1..(k - 1) :
                                      tokens[j].kind \in {"Enum", "Literal"}})))
    \o (IF tokens[k].is_optional THEN <<"?">> ELSE <<>>)

\* C26: in every signature written, the k-th Enum or Literal token of the
\* variant, counted from 0 without the Argument tokens, is named opt<k>, an
\* Argument token is named by its sanitised name, and the name ends with `?`
\* exactly when the token is optional.
C26_ParameterNaming ==
  stage = "written" =>
    \A c \in DOMAIN commands :
       \A v \in DOMAIN commands[c].value :
          LET tokens == commands[c].value[v]
              names == ParameterNames(text[SignatureIndex(c, v)])
          IN  /\ Len(names) = Len(tokens)
              /\ \A k \in DOMAIN tokens : names[k] = ClaimedName(tokens, k)

\* C26 witness: a signature was written for a variant with an optional
\* Argument token after a Literal token.
C26_Witness ==
  /\ stage = "written"
  /\ \E c \in DOMAIN commands :
        \E v \in DOMAIN commands[c].value :
           LET tokens == commands[c].value[v]
           IN  /\ Len(tokens) = 2
               /\ tokens[1].kind = "Literal"
               /\ tokens[2].kind = "Argument"
               /\ tokens[2].is_optional

\* The export lines are the last lines of the text, one for each command.
ExportIndex(c) == Len(text) - Len(commands) + c

\* The name an export line `export const <name> = ...` declares.
ExportedName(line) == Split(SubSeq(line, 14, Len(line)), " ")[1]

\* C28: no two `export const` declarations of one written text declare the
\* same name: two different command names of the map give two different
\* exported identifiers.
C28_ExportedBindingsDistinct ==
  stage = "written" =>
    \A c, d \in DOMAIN commands :
       commands[c].key # commands[d].key =>
         ExportedName(text[ExportIndex(c)]) # ExportedName(text[ExportIndex(d)])

(***************************************************************************)
(* Inputs of pipeline B: the programs the parser hands to compile_program. *)
(***************************************************************************)

\* Most top-level statements of a program.
MaxStatements == 2

NameF == <<"f">>
NameG == <<"g">>
NameSay == <<"S", "a", "y">>
NameS == <<"s">>
NameR == <<"r">>
NameV == <<"v">>
NameHi == <<"h", "i">>

DirectiveSay == <<"s", "m", "e", "l", "t", "e", "r", " ", "s", "a", "y">>
DirectiveStrict == <<"u", "s", "e", " ", "s", "t", "r", "i", "c", "t">>
DirectiveBare == <<"s", "m", "e", "l", "t", "e", "r">>
DirectiveBlank == <<"s", "m", "e", "l", "t", "e", "r", " ">>
DirectiveOther == <<"s", "m", "e", "l", "t", "e", "r", "x", " ", "s", "a", "y">>

\* The directive prologues of a function body.
DirectiveChoices ==
  {<<>>, <<DirectiveSay>>, <<DirectiveStrict, DirectiveSay>>,
   <<DirectiveBare, DirectiveSay>>, <<DirectiveBlank>>, <<DirectiveOther>>}

NoParameters == FormalParameters(<<>>, <<>>)

\* The span start of the i-th top-level statement, and of what lies inside
\* the statement that starts at `start`.
StatementStart(i) == (i - 1) * 100
InitStart(start) == start + 8
ArgumentStart(start) == start + 2
BodyStart(start) == start + 20

\* `f("hi")`: the call and its callee start at the same offset.
CallF(start, argument) == CallExpression(start, Identifier(start, NameF), <<argument>>)

\* `() => { <directives> }`
Arrow(start, directives) ==
  ArrowFunctionExpression(start, NoParameters, FunctionBody(directives, <<>>))

\* The statements a program may hold at offset `start`.
StatementChoices(start) ==
  {FunctionDeclaration(
     Function(<<BindingIdentifier(NameF)>>,
              FormalParameters(<<BindingIdentifier(NameS)>>, <<>>),
              <<FunctionBody(d,
                  <<ExpressionStatement(StringLiteral(BodyStart(start), NameHi))>>)>>,
              start)) : d \in DirectiveChoices}
    \cup {FunctionDeclaration(
            Function(<<BindingIdentifier(NameSay)>>, NoParameters,
                     <<FunctionBody(d, <<>>)>>, start)) :
            d \in {<<>>, <<DirectiveSay>>}}
    \cup {FunctionDeclaration(
            Function(<<BindingIdentifier(NameF)>>,
                     FormalParameters(<<ObjectPattern, BindingIdentifier(NameS)>>,
                                      <<BindingIdentifier(NameR)>>),
                     <<FunctionBody(<<>>,
                         <<FunctionDeclaration(
                             Function(<<BindingIdentifier(NameG)>>, NoParameters,
                                      <<FunctionBody(<<>>, <<>>)>>,
                                      BodyStart(start)))>>)>>,
                     start)),
          FunctionDeclaration(
            Function(<<BindingIdentifier(NameF)>>, NoParameters, <<>>, start))}
    \cup {ExpressionStatement(Arrow(start, d)) : d \in {<<>>, <<DirectiveSay>>}}
    \cup {VariableDeclaration(<<VariableDeclarator(<<NameV>>, <<Arrow(InitStart(start), <<>>)>>)>>),
          VariableDeclaration(<<VariableDeclarator(<<NameV>>,
            <<CallF(InitStart(start),
                    StringLiteral(ArgumentStart(InitStart(start)), NameHi))>>)>>),
          VariableDeclaration(<<VariableDeclarator(<<NameV>>, <<>>)>>),
          VariableDeclaration(<<VariableDeclarator(<<>>,
            <<StringLiteral(InitStart(start), NameHi)>>)>>)}
    \cup {ExpressionStatement(CallF(start, StringLiteral(ArgumentStart(start), NameHi))),
          ExpressionStatement(CallF(start, Arrow(ArgumentStart(start), <<DirectiveSay>>))),
          ExpressionStatement(Identifier(start, NameF)),
          EmptyStatement}

RECURSIVE BodiesOfLen(_)
BodiesOfLen(n) ==
  IF n = 0 THEN {<<>>}
  ELSE {b \o <<s>> : b \in BodiesOfLen(n - 1),
                     s \in StatementChoices(StatementStart(n))}

Programs ==
  {[body |-> b] : b \in UNION {BodiesOfLen(n) : n \in 1..MaxStatements}}

(***************************************************************************)
(* Pipeline B as a state machine: main compiles the program and writes one *)
(* file for each Mcfunction of the data pack.                              *)
(***************************************************************************)

\* Pipeline A before it is given a tree.
IdleA ==
  /\ tree = <<>>
  /\ stage = "idle"
  /\ consolidated = <<>>
  /\ reconsolidated = <<>>
  /\ rewritten = <<>>
  /\ commands = <<>>
  /\ text = <<>>
  /\ run = 1
  /\ first = NoOutputs

InitB ==
  /\ program \in Programs
  /\ phase = "parsed"
  /\ data_pack = <<>>
  /\ files = <<>>
  /\ IdleA
  /\ IdleRest

CompileProgram ==
  /\ phase = "parsed"
  /\ data_pack' = compile_program(program)
  /\ phase' = "compiled"
  /\ UNCHANGED <<program, files>>
  /\ UNCHANGED <<varsA, varsRest>>

\* main: std::fs::write for each function of the data pack, in order; a later
\* function of the same name overwrites the file of an earlier one.  A file
\* holds the body's lines.
WriteDataPack ==
  /\ phase = "compiled"
  /\ files' =
       [name \in {data_pack[i].name : i \in DOMAIN data_pack} |->
          data_pack[CHOOSE i \in DOMAIN data_pack :
                      /\ data_pack[i].name = name
                      /\ \A j \in DOMAIN data_pack :
                            data_pack[j].name = name => j <= i].body]
  /\ phase' = "written"
  /\ UNCHANGED <<program, data_pack>>
  /\ UNCHANGED <<varsA, varsRest>>

NextB ==
  \/ CompileProgram
  \/ WriteDataPack

SpecB == InitB /\ [][NextB]_vars

(***************************************************************************)
(* Properties of pipeline B                                                *)
(***************************************************************************)

\* C6 (as claimed): no two Mcfunctions of the data pack have the same name.
C6_FunctionNameUniqueness ==
  phase = "compiled" =>
    \A i, j \in DOMAIN data_pack :
       i # j => data_pack[i].name # data_pack[j].name

\* The functions with a body that the walk of the program reaches, in order.
RECURSIVE FunctionsOfExpression(_)
FunctionsOfExpression(expression) ==
  CASE expression.kind = "ArrowFunctionExpression" -> expression.function
    [] expression.kind = "CallExpression" ->
         FunctionsOfExpression(expression.callee[1])
           \o Concat([i \in DOMAIN expression.arguments |->
                        FunctionsOfExpression(expression.arguments[i])])
    [] OTHER -> <<>>

FunctionsOfStatement(statement) ==
  CASE statement.kind = "ExpressionStatement" ->
         FunctionsOfExpression(statement.expression[1])
    [] statement.kind = "FunctionDeclaration" ->
         IF statement.function[1].body # <<>> THEN statement.function ELSE <<>>
    [] statement.kind = "VariableDeclaration" ->
         Concat([i \in DOMAIN statement.declarations |->
                   IF statement.declarations[i].init # <<>>
                   THEN FunctionsOfExpression(statement.declarations[i].init[1])
                   ELSE <<>>])
    [] OTHER -> <<>>

VisitedFunctions(p) ==
  Concat([i \in DOMAIN p.body |-> FunctionsOfStatement(p.body[i])])

\* The directives that begin with `smelter ` followed by a command name.
NamesCommand(directive) ==
  /\ StartsWith(directive, SMELTER \o <<" ">>)
  /\ Split(directive, " ")[2] # <<>>

\* What the claim has a function become: the wrapper and `<cmd>_macro` when a
\* directive names a command, the normal lowering otherwise.
ClaimedLowering(function) ==
  LET body == function.body[1]
      function_name == make_function_name(function.id, function.span)
      naming == {i \in DOMAIN body.directives : NamesCommand(body.directives[i])}
  IN  IF naming # {}
      THEN LET first_naming == CHOOSE i \in naming : \A j \in naming : i <= j
               command == Split(body.directives[first_naming], " ")[2]
           IN  <<Mcfunction(function_name,
                            compile_command_wrapper_function_body(command)),
                 compile_command_macro_function(command)>>
      ELSE CompileFunctionBody(function_name, function.params, body)

\* C7 (as claimed): the data pack starts with, for each function, the wrapper
\* and `<cmd>_macro` if one of its directives begins with `smelter ` followed
\* by a command name, and its normal lowering if none does; the four runtime
\* functions and main follow.
C7_DirectiveOverride ==
  phase = "compiled" =>
    LET visited == VisitedFunctions(program)
    IN  SubSeq(data_pack, 1, Len(data_pack) - 5) =
          Concat([i \in DOMAIN visited |-> ClaimedLowering(visited[i])])

\* The functions with a body of a statement or an expression, those nested
\* inside function bodies included.
RECURSIVE DeclaredInStatement(_)
RECURSIVE DeclaredInExpression(_)

DeclaredInFunction(function) ==
  {function}
    \cup UNION {DeclaredInStatement(function.body[1].statements[i]) :
                  i \in DOMAIN function.body[1].statements}

DeclaredInExpression(expression) ==
  CASE expression.kind = "ArrowFunctionExpression" ->
         DeclaredInFunction(expression.function[1])
    [] expression.kind = "CallExpression" ->
         DeclaredInExpression(expression.callee[1])
           \cup UNION {DeclaredInExpression(expression.arguments[i]) :
                         i \in DOMAIN expression.arguments}
    [] OTHER -> {}

DeclaredInStatement(statement) ==
  CASE statement.kind = "ExpressionStatement" ->
         DeclaredInExpression(statement.expression[1])
    [] statement.kind = "FunctionDeclaration" ->
         IF statement.function[1].body # <<>>
         THEN DeclaredInFunction(statement.function[1])
         ELSE {}
    [] statement.kind = "VariableDeclaration" ->
         UNION {IF statement.declarations[i].init # <<>>
                THEN DeclaredInExpression(statement.declarations[i].init[1])
                ELSE {} : i \in DOMAIN statement.declarations}
    [] OTHER -> {}

\* C16 (as claimed): every function declaration with a body and every arrow
\* expression of the program, nested ones included, has an Mcfunction of its
\* make_function_name in the data pack.
C16_SubFunctionCollection ==
  phase = "compiled" =>
    \A i \in DOMAIN program.body :
       \A function \in DeclaredInStatement(program.body[i]) :
          \E k \in DOMAIN data_pack :
             data_pack[k].name = make_function_name(function.id, function.span)

\* The expressions of the program that are lowered: those of the statements,
\* with their callees and arguments, inside function bodies included.
RECURSIVE LoweredInStatement(_)
RECURSIVE LoweredInExpression(_)

LoweredInExpression(expression) ==
  {expression}
    \cup (CASE expression.kind = "ArrowFunctionExpression" ->
                 UNION {LoweredInStatement(
                          expression.function[1].body[1].statements[i]) :
                        i \in DOMAIN expression.function[1].body[1].statements}
            [] expression.kind = "CallExpression" ->
                 LoweredInExpression(expression.callee[1])
                   \cup UNION {LoweredInExpression(expression.arguments[i]) :
                                 i \in DOMAIN expression.arguments}
            [] OTHER -> {})

LoweredInStatement(statement) ==
  CASE statement.kind = "ExpressionStatement" ->
         LoweredInExpression(statement.expression[1])
    [] statement.kind = "FunctionDeclaration" ->
         IF statement.function[1].body # <<>>
         THEN UNION {LoweredInStatement(
                       statement.function[1].body[1].statements[i]) :
                     i \in DOMAIN statement.function[1].body[1].statements}
         ELSE {}
    [] statement.kind = "VariableDeclaration" ->
         UNION {IF statement.declarations[i].init # <<>>
                THEN LoweredInExpression(statement.declarations[i].init[1])
                ELSE {} : i \in DOMAIN statement.declarations}
    [] OTHER -> {}

\* C27 (as claimed): two distinct lowered expressions of a program never have
\* the same expression id; a call expression and its callee have different
\* ids.
C27_ExpressionIdsUnique ==
  phase = "compiled" =>
    LET lowered == UNION {LoweredInStatement(program.body[i]) :
                            i \in DOMAIN program.body}
    IN  \A e1, e2 \in lowered :
           e1 # e2 => make_expression_id(e1) # make_expression_id(e2)

(***************************************************************************)
(* TreeBuilder (tree_provider/brigadier_json.rs): BrigadierJsonNode to     *)
(* BrigadierTree.  A BTreeMap is a sequence of [key, value] in key order.  *)
(***************************************************************************)

\* Result<T, ConversionError>; in a message a grave accent is written as an
\* apostrophe.
Ok(value) == [ok |-> TRUE, value |-> <<value>>, error |-> "", message |-> ""]
Err(error, message) ==
  [ok |-> FALSE, value |-> <<>>, error |-> error, message |-> message]

\* BrigadierJsonNode: every field but node_type is an Option.
BrigadierJsonNode(node_type, children, executable, parser, properties, redirect) ==
  [node_type |-> node_type, children |-> children, executable |-> executable,
   parser |-> parser, properties |-> properties, redirect |-> redirect]

\* Iterator<Result<BrigadierTreeNode, _>>::collect into a Result of a
\* BTreeSet: the first Err met, or the set of all the nodes.
CollectNodes(results) ==
  IF \E i \in DOMAIN results : ~results[i].ok
  THEN results[CHOOSE i \in DOMAIN results :
                 /\ ~results[i].ok
                 /\ \A j \in 1..(i - 1) : results[j].ok]
  ELSE Ok(NodeSet([i \in DOMAIN results |-> results[i].value[1]]))

\* Mutant of to_brigadier_tree_node: a `type=root` node is taken as a Literal.
RECURSIVE to_brigadier_tree_node_RootAsLiteral(_, _, _)
to_brigadier_tree_node_RootAsLiteral(name, json_node, depth) ==
  LET converted ==
        IF json_node.children # <<>>
        THEN CollectNodes([i \in DOMAIN json_node.children[1] |->
               to_brigadier_tree_node_RootAsLiteral(
                 json_node.children[1][i].key,
                 json_node.children[1][i].value, depth + 1)])
        ELSE Ok(<<>>)
      children ==
        IF json_node.children # <<>> THEN Nodes(converted.value[1])
        ELSE IF json_node.redirect # <<>> THEN Redirect(json_node.redirect[1])
        ELSE Nodes(<<>>)
      executable ==
        IF json_node.executable # <<>> THEN json_node.executable[1] ELSE FALSE
  IN  IF ~converted.ok THEN converted
      ELSE IF json_node.node_type = "argument"
      THEN IF json_node.parser # <<>>
           THEN Ok(Argument(name, executable, json_node.parser[1],
                            json_node.properties, children))
           ELSE Err("MalformedTree",
                    "Found a 'type=argument' node without a 'parser'.")
      ELSE Ok(Literal(name, executable, children))

RECURSIVE to_brigadier_tree_node(_, _, _)
to_brigadier_tree_node(name, json_node, depth) ==
  LET converted ==
        IF json_node.children # <<>>
        THEN CollectNodes([i \in DOMAIN json_node.children[1] |->
               to_brigadier_tree_node(json_node.children[1][i].key,
                                      json_node.children[1][i].value,
                                      depth + 1)])
        ELSE Ok(<<>>)
      children ==
        IF json_node.children # <<>> THEN Nodes(converted.value[1])
        ELSE IF json_node.redirect # <<>> THEN Redirect(json_node.redirect[1])
        ELSE Nodes(<<>>)
      executable ==
        IF json_node.executable # <<>> THEN json_node.executable[1] ELSE FALSE
  IN  IF ~converted.ok THEN converted
      ELSE IF json_node.node_type = "argument"
      THEN IF json_node.parser # <<>>
           THEN Ok(Argument(name, executable, json_node.parser[1],
                            json_node.properties, children))
           ELSE Err("MalformedTree",
                    "Found a 'type=argument' node without a 'parser'.")
      ELSE IF json_node.node_type = "literal"
      THEN Ok(Literal(name, executable, children))
      ELSE Err("MalformedTree", "Found a 'type=root' node within the JSON tree.")

\* impl TryFrom<BrigadierJsonNode> for BrigadierTree: the tree is its set of
\* commands.
TryFromJson(value) ==
  IF value.children # <<>>
  THEN CollectNodes([i \in DOMAIN value.children[1] |->
         to_brigadier_tree_node(value.children[1][i].key,
                                value.children[1][i].value, 1)])
  ELSE Ok(<<>>)

(***************************************************************************)
(* Inputs of the TreeBuilder: what serde_json can deserialize.             *)
(***************************************************************************)

\* Most levels of nodes below the outermost node.
MaxJsonDepth == 2

NameC == <<"c">>

\* node_type, executable and parser of a node.
JsonShapes ==
  {[node_type |-> "argument", executable |-> <<>>, parser |-> <<ParserInteger>>],
   [node_type |-> "argument", executable |-> <<TRUE>>, parser |-> <<>>],
   [node_type |-> "literal", executable |-> <<>>, parser |-> <<>>],
   [node_type |-> "literal", executable |-> <<TRUE>>, parser |-> <<>>],
   [node_type |-> "root", executable |-> <<>>, parser |-> <<>>]}

\* The nodes with at most d levels of nodes below them.
RECURSIVE JsonNodes(_)
JsonNodes(d) ==
  LET childless == {<<>>, << <<>> >>}
      with_child ==
        IF d = 0 THEN {}
        ELSE {<< <<[key |-> NameC, value |-> n]>> >> : n \in JsonNodes(d - 1)}
  IN  {BrigadierJsonNode(s.node_type, c, s.executable, s.parser, <<>>, <<>>) :
         s \in JsonShapes, c \in childless \cup with_child}
        \cup {BrigadierJsonNode("literal", c, <<>>, <<>>, <<>>, r) :
                c \in {<<>>, << <<>> >>}, r \in {<<<<NameX>>>>, << <<>> >>}}

\* The children of the outermost node: a map with the keys `a` and `b`, or
\* some of them.
JsonCommandMaps ==
  LET entries(key) ==
        {<<>>} \cup {<<[key |-> key, value |-> n]>> :
                       n \in JsonNodes(MaxJsonDepth - 1)}
  IN  {a \o b : a \in entries(NameA), b \in entries(NameB)}

JsonTrees ==
  {BrigadierJsonNode(t, c, <<>>, <<>>, <<>>, <<>>) :
     t \in {"root", "literal"},
     c \in {<<>>} \cup {<<m>> : m \in JsonCommandMaps}}

(***************************************************************************)
(* The TreeBuilder as a state machine                                      *)
(***************************************************************************)

InitT ==
  /\ json \in JsonTrees
  /\ build_stage = "parsed"
  /\ built = <<>>
  /\ IdleA
  /\ IdleB
  /\ IdleF
  /\ IdleC
  /\ IdleR

\* BrigadierTree::try_from(json)
Convert ==
  /\ build_stage = "parsed"
  /\ built' = TryFromJson(json)
  /\ build_stage' = "built"
  /\ UNCHANGED <<json, varsExceptT>>

NextT == Convert

SpecT == InitT /\ [][NextT]_vars

\* The nodes below a JSON node, at any depth.
RECURSIVE JsonDescendants(_)
JsonDescendants(node) ==
  IF node.children = <<>> THEN {}
  ELSE UNION {{node.children[1][i].value}
                \cup JsonDescendants(node.children[1][i].value) :
                i \in DOMAIN node.children[1]}

Malformed(node) ==
  \/ node.node_type = "argument" /\ node.parser = <<>>
  \/ node.node_type = "root"

\* The tree node converted from `node` says executable exactly when the JSON
\* node has `executable: true`, and so do the nodes below it.
RECURSIVE ExecutableAsGiven(_, _)
ExecutableAsGiven(node, tree_node) ==
  /\ tree_node.executable = (node.executable = <<TRUE>>)
  /\ node.children # <<>> =>
       \A i \in DOMAIN node.children[1] :
          /\ HasChildNamed(tree_node, node.children[1][i].key)
          /\ ExecutableAsGiven(node.children[1][i].value,
                               ChildNamed(tree_node, node.children[1][i].key))

\* C11: the conversion fails, with MalformedTree and without a tree, exactly
\* when a node below the outermost one is an argument without parser or a
\* root; when it succeeds every node without `executable` is non-executable.
C11_TreeBuilderErrors ==
  build_stage = "built" =>
    /\ ~built.ok <=> \E n \in JsonDescendants(json) : Malformed(n)
    /\ ~built.ok => built.error = "MalformedTree" /\ built.value = <<>>
    /\ built.ok /\ json.children # <<>> =>
         \A i \in DOMAIN json.children[1] :
            \E k \in DOMAIN built.value[1] :
               /\ built.value[1][k].name = json.children[1][i].key
               /\ ExecutableAsGiven(json.children[1][i].value,
                                    built.value[1][k])

\* C11 witness: a conversion that fails on a node two levels down, under a
\* root whose own type is not `root`.
C11_Witness ==
  /\ build_stage = "built"
  /\ ~built.ok
  /\ json.node_type = "literal"
  /\ json.children # <<>>
  /\ \A i \in DOMAIN json.children[1] : ~Malformed(json.children[1][i].value)

\* C23 (as claimed): every Redirect of a tree the TreeBuilder has built has a
\* path of at least one name.
C23_RedirectPathsNonEmpty ==
  (build_stage = "built" /\ built.ok) =>
    \A n \in TreeNodes(built.value[1]) :
       n.children.tag = "Redirect" => n.children.path # <<>>

(***************************************************************************)
(* fix_identifier as a state machine: it is applied to a String, then to   *)
(* its own result.                                                         *)
(***************************************************************************)

\* Longest identifier given to fix_identifier.
MaxIdentifierLen == 4

RECURSIVE StringsOfLen(_)
StringsOfLen(n) ==
  IF n = 0 THEN {<<>>}
  ELSE {<<c>> \o t : c \in {"d", "o", "-"}, t \in StringsOfLen(n - 1)}

Identifiers == UNION {StringsOfLen(n) : n \in 0..MaxIdentifierLen}

InitF ==
  /\ identifier \in Identifiers
  /\ fix_stage = "given"
  /\ fixed = <<>>
  /\ refixed = <<>>
  /\ IdleA
  /\ IdleB
  /\ IdleT
  /\ IdleC
  /\ IdleR

Fix ==
  /\ fix_stage = "given"
  /\ IF fix_identifier_panics(identifier)
     THEN fix_stage' = "panicked" /\ UNCHANGED fixed
     ELSE fix_stage' = "fixed" /\ fixed' = fix_identifier(identifier)
  /\ UNCHANGED <<identifier, refixed, varsExceptF>>

FixAgain ==
  /\ fix_stage = "fixed"
  /\ IF fix_identifier_panics(fixed)
     THEN fix_stage' = "panicked" /\ UNCHANGED refixed
     ELSE fix_stage' = "refixed" /\ refixed' = fix_identifier(fixed)
  /\ UNCHANGED <<identifier, fixed, varsExceptF>>

NextF ==
  \/ Fix
  \/ FixAgain

SpecF == InitF /\ [][NextF]_vars

IsReservedWord(str) ==
  \E k \in DOMAIN RESERVED_KEYWORDS_JAVASCRIPT :
     RESERVED_KEYWORDS_JAVASCRIPT[k] = str

\* C14: an identifier without a dash that is no reserved word is returned as
\* it is, and so is the result when fix_identifier is applied to it again.
C14_FixIdentifierIdempotent ==
  (~ContainsChar(identifier, "-") /\ ~IsReservedWord(identifier)) =>
    /\ fix_stage # "panicked"
    /\ fix_stage \in {"fixed", "refixed"} => fixed = identifier
    /\ fix_stage = "refixed" => refixed = fixed

\* C14 witness: fix_identifier was applied twice to a word such as `dodo`.
C14_Witness ==
  /\ fix_stage = "refixed"
  /\ Len(identifier) = MaxIdentifierLen
  /\ ~ContainsChar(identifier, "-")
  /\ ~IsReservedWord(identifier)


\* What the claim has fix_identifier return before the reserved words are
\* looked at: the characters that are no dash, one that follows a dash
\* upper-cased.
CamelCased(str) ==
  LET kept == {i \in DOMAIN str : str[i] # "-"}
      Nth(k) == CHOOSE i \in kept : Cardinality({j \in kept : j <= i}) = k
  IN  [k \in 1..Cardinality(kept) |->
         IF Nth(k) > 1 /\ str[Nth(k) - 1] = "-"
         THEN to_ascii_uppercase(str[Nth(k)])
         ELSE str[Nth(k)]]

\* C25 (as claimed): for every name fix_identifier returns the name with the
\* dashes removed and the first byte of each segment after the first
\* upper-cased, followed by `_` exactly when that is a reserved word; the
\* object key is the name, quoted exactly when it has a dash.
C25_IdentifierSanitisation ==
  fix_stage # "given" =>
    /\ fix_stage # "panicked"
    /\ fixed = IF IsReservedWord(CamelCased(identifier))
               THEN CamelCased(identifier) \o <<"_">>
               ELSE CamelCased(identifier)
    /\ fix_object_type_key(identifier) =
         IF \E i \in DOMAIN identifier : identifier[i] = "-"
         THEN <<"\"">> \o identifier \o <<"\"">>
         ELSE identifier

(***************************************************************************)
(* The data cache (command_data/cache.rs) and the repository behind it     *)
(* (tree_provider/cache/repository.rs).  A version, a commit message and a *)
(* payload are Strings; the files of data/ are a function from the version *)
(* to an Option of the file's content.                                     *)
(***************************************************************************)

\* str::contains
StrContains(s, pattern) ==
  \E i \in 0..(Len(s) - Len(pattern)) :
     SubSeq(s, i + 1, i + Len(pattern)) = pattern

\* Mutant of fetch: the newest commit is taken, whatever its message.
fetch_NewestCommit(version, listed, network) ==
  IF network.list = "request" THEN Err("RequestError", "")
  ELSE IF network.list = "decode" THEN Err("DeserializationError", "")
  ELSE IF listed = <<>> THEN Err("VersionNotFound", "")
  ELSE IF network.raw = "request" THEN Err("RequestError", "")
  ELSE IF network.raw = "decode" THEN Err("DeserializationError", "")
  ELSE Ok(listed[1].data)

\* McmetaRemoteRepository::fetch.  `network` says how the request for the
\* list of commits and the request for the data of a commit end: "ok", or
\* with a reqwest::Error that is_decode ("decode") or is not ("request").
fetch(version, listed, network) ==
  LET mentioning == {i \in DOMAIN listed : StrContains(listed[i].message, version)}
  IN  IF network.list = "request" THEN Err("RequestError", "")
      ELSE IF network.list = "decode" THEN Err("DeserializationError", "")
      ELSE IF mentioning = {} THEN Err("VersionNotFound", "")
      ELSE IF network.raw = "request" THEN Err("RequestError", "")
      ELSE IF network.raw = "decode" THEN Err("DeserializationError", "")
      ELSE Ok(listed[CHOOSE i \in mentioning : \A j \in mentioning : i <= j].data)

\* What fs::write leaves of the file: all of `data` when it succeeds; when it
\* fails, no file, an empty file or a file with part of `data`.
Written(data, write) ==
  CASE write = "ok" -> <<data>>
    [] write = "not_created" -> <<>>
    [] write = "created" -> << <<>> >>
    [] OTHER -> <<SubSeq(data, 1, Len(data) - 1)>>

\* Mutant of get: the fetched data is returned without being written.
get_WithoutWrite(version, data_files, listed, read, network, write) ==
  CASE read = "ok" ->
         [result |-> Ok(data_files[version][1]), files |-> data_files, fetched |-> 0]
    [] read = "not_found" ->
         LET data == fetch(version, listed, network)
         IN  IF ~data.ok
             THEN [result |-> Err("VersionNotFound", data.error),
                   files |-> data_files, fetched |-> 1]
             ELSE [result |-> data, files |-> data_files, fetched |-> 1]
    [] OTHER ->
         [result |-> Err("WriteFailure", ""), files |-> data_files, fetched |-> 0]

\* FileSystemDataCache::get.  `read` says how fs::read_to_string ends: "ok",
\* with io::ErrorKind::NotFound ("not_found") or with another error; `write`
\* how fs::write does.  The result, the files afterwards, and the number of
\* calls of the repository.
get(version, data_files, listed, read, network, write) ==
  CASE read = "ok" ->
         [result |-> Ok(data_files[version][1]), files |-> data_files, fetched |-> 0]
    [] read = "not_found" ->
         LET data == fetch(version, listed, network)
         IN  IF ~data.ok
             THEN [result |-> Err("VersionNotFound", data.error),
                   files |-> data_files, fetched |-> 1]
             ELSE IF write = "ok"
             THEN [result |-> data,
                   files |-> [data_files EXCEPT ![version] = Written(data.value[1], write)],
                   fetched |-> 1]
             ELSE [result |-> Err("WriteFailure", ""),
                   files |-> [data_files EXCEPT ![version] = Written(data.value[1], write)],
                   fetched |-> 1]
    [] OTHER ->
         [result |-> Err("WriteFailure", ""), files |-> data_files, fetched |-> 0]

(***************************************************************************)
(* The cache as a state machine: get is called some times.                 *)
(***************************************************************************)

\* Most calls of get.
MaxGets == 3

Versions == {<<"2">>, <<"2", "0">>}

Commit(message, data) == [message |-> message, data |-> data]

\* What the repository may list.
CommitLists ==
  {<<>>,
   <<Commit(<<"u", "p", " ", "3">>, <<"p", "q">>)>>,
   <<Commit(<<"u", "p", " ", "2", "0">>, <<"x", "y">>)>>,
   <<Commit(<<"u", "p", " ", "2", "0">>, <<"x", "y">>), Commit(<<"u", "p", " ", "2">>, <<"z">>)>>}

Networks == [list : {"ok", "request", "decode"}, raw : {"ok", "request", "decode"}]

Writes == {"ok", "not_created", "created", "partial"}

\* How fs::read_to_string may end on a file.
Reads(file) == IF file # <<>> THEN {"ok", "other"} ELSE {"not_found", "other"}

InitC ==
  /\ cache_files \in [Versions -> {<<>>, <<<<"w">>>>}]
  /\ commits \in CommitLists
  /\ gets = 0
  /\ fetches = 0
  /\ last_get = <<>>
  /\ IdleA
  /\ IdleB
  /\ IdleT
  /\ IdleF
  /\ IdleR

Get ==
  /\ gets < MaxGets
  /\ \E version \in Versions, network \in Networks, write \in Writes :
       \E read \in Reads(cache_files[version]) :
          LET returned == get(version, cache_files, commits, read, network, write)
          IN  /\ cache_files' = returned.files
              /\ fetches' = fetches + returned.fetched
              /\ last_get' = [version |-> version, read |-> read,
                              network |-> network, write |-> write,
                              result |-> returned.result]
  /\ gets' = gets + 1
  /\ UNCHANGED <<commits, varsExceptC>>

NextC == Get

SpecC == InitC /\ [][NextC]_vars

\* The payload the repository holds for a version: the data of the newest
\* commit whose message mentions it.
Mentions(version) ==
  {i \in DOMAIN commits : StrContains(commits[i].message, version)}

PayloadOf(version) ==
  commits[CHOOSE i \in Mentions(version) : \A j \in Mentions(version) : i <= j].data

\* The fetch of a version fails: a request fails, or no commit mentions it.
FetchFails(version, network) ==
  \/ network.list # "ok"
  \/ Mentions(version) = {}
  \/ network.raw # "ok"

\* C12: a get that can read the file returns its content, calls no
\* repository and leaves the files as they are; a get that finds no file
\* calls the repository once, and when it returns a payload the file holds
\* that payload afterwards (so a later get is of the first kind).
C12_CacheHitAndMiss ==
  [][gets' = gets + 1 =>
       LET version == last_get'.version
           returned == last_get'.result
       IN  /\ last_get'.read = "ok" =>
                /\ returned = Ok(cache_files[version][1])
                /\ fetches' = fetches
                /\ cache_files' = cache_files
           /\ last_get'.read = "not_found" =>
                /\ fetches' = fetches + 1
                /\ returned.ok =>
                     /\ returned = Ok(PayloadOf(version))
                     /\ cache_files' =
                          [cache_files EXCEPT ![version] = <<PayloadOf(version)>>]]_vars

\* C12 witness: a version was fetched once and then served from its file.
C12_Witness ==
  /\ gets = 2
  /\ fetches = 1
  /\ last_get.read = "ok"
  /\ last_get.result.ok
  /\ last_get.result.value[1] = PayloadOf(last_get.version)
  /\ cache_files[last_get.version] = <<PayloadOf(last_get.version)>>

\* C13: a failed fetch gives an error and leaves the files as they are; a
\* read that fails otherwise than with not-found gives a cache failure and
\* no call of the repository; a failed write after a fetch gives an error.
C13_CacheErrors ==
  [][gets' = gets + 1 =>
       LET version == last_get'.version
           returned == last_get'.result
           fetch_fails == FetchFails(version, last_get'.network)
       IN  /\ (last_get'.read = "not_found" /\ fetch_fails) =>
                /\ ~returned.ok
                /\ cache_files' = cache_files
           /\ last_get'.read = "other" =>
                /\ ~returned.ok
                /\ returned.error = "WriteFailure"
                /\ fetches' = fetches
           /\ (last_get'.read = "not_found" /\ ~fetch_fails
                 /\ last_get'.write # "ok") =>
                /\ ~returned.ok
                /\ returned.value = <<>>]_vars

\* C13 witness: the fetch succeeded and the write failed, leaving part of the
\* payload in the file.
C13_Witness ==
  /\ gets > 0
  /\ last_get.read = "not_found"
  /\ ~FetchFails(last_get.version, last_get.network)
  /\ last_get.write = "partial"
  /\ ~last_get.result.ok
  /\ cache_files[last_get.version] # <<>>


(***************************************************************************)
(* The data-pack runtime: the storage `smelter:smelter` that the lowered   *)
(* commands of main.rs read and write.  An NBT value is a compound (its    *)
(* entries in key order), a list, a string or a number.                    *)
(***************************************************************************)

NbtCompound(entries) ==
  [tag |-> "compound", entries |-> entries, items |-> <<>>, string |-> <<>>, int |-> 0]

NbtList(items) ==
  [tag |-> "list", entries |-> <<>>, items |-> items, string |-> <<>>, int |-> 0]

NbtString(string) ==
  [tag |-> "string", entries |-> <<>>, items |-> <<>>, string |-> string, int |-> 0]

NbtInt(int) ==
  [tag |-> "int", entries |-> <<>>, items |-> <<>>, string |-> <<>>, int |-> int]

\* `true` in a compound literal is the byte 1.
NbtTrue ==
  [tag |-> "byte", entries |-> <<>>, items |-> <<>>, string |-> <<>>, int |-> 1]

\* {key: value}
NbtOf(key, value) == NbtCompound(<<[key |-> key, value |-> value]>>)

\* The steps of an NBT path: `.name` and `[index]`.
Key(name) == [kind |-> "key", name |-> name, index |-> 0]
At(index) == [kind |-> "index", name |-> <<>>, index |-> index]

NbtChild(compound, key) ==
  compound.entries[CHOOSE i \in DOMAIN compound.entries :
                     compound.entries[i].key = key].value

\* The position in a list of an index of a path; a negative index counts
\* from the end of the list.
ListPosition(items, index) ==
  IF index >= 0 THEN index + 1 ELSE Len(items) + index + 1

\* The value at a path, as an Option.
RECURSIVE NbtGet(_, _)
NbtGet(nbt, path) ==
  IF path = <<>> THEN <<nbt>>
  ELSE LET step == Head(path)
       IN  IF step.kind = "key"
           THEN IF nbt.tag = "compound" /\ IsKey(nbt.entries, step.name)
                THEN NbtGet(NbtChild(nbt, step.name), Tail(path))
                ELSE <<>>
           ELSE IF /\ nbt.tag = "list"
                   /\ ListPosition(nbt.items, step.index) \in DOMAIN nbt.items
                THEN NbtGet(nbt.items[ListPosition(nbt.items, step.index)],
                            Tail(path))
                ELSE <<>>

\* `data modify ... set`: the value with `new` put at the path, as an
\* Option; compounds missing on the way are created, list elements are not.
RECURSIVE NbtSet(_, _, _)
NbtSet(nbt, path, new) ==
  IF path = <<>> THEN <<new>>
  ELSE LET step == Head(path)
       IN  IF step.kind = "key"
           THEN IF nbt.tag # "compound" THEN <<>>
                ELSE LET child ==
                           IF IsKey(nbt.entries, step.name)
                           THEN NbtChild(nbt, step.name)
                           ELSE NbtCompound(<<>>)
                         updated == NbtSet(child, Tail(path), new)
                     IN  IF updated = <<>> THEN <<>>
                         ELSE <<NbtCompound(
                                  MapInsert(nbt.entries, step.name, updated[1]))>>
           ELSE IF \/ nbt.tag # "list"
                   \/ ListPosition(nbt.items, step.index) \notin DOMAIN nbt.items
                THEN <<>>
                ELSE LET k == ListPosition(nbt.items, step.index)
                         updated == NbtSet(nbt.items[k], Tail(path), new)
                     IN  IF updated = <<>> THEN <<>>
                         ELSE <<NbtList([nbt.items EXCEPT ![k] = updated[1]])>>

\* The list without its k-th element.
RemoveAt(items, k) == SubSeq(items, 1, k - 1) \o SubSeq(items, k + 1, Len(items))

\* `data remove`: the value without what the path names, as an Option; None
\* when the path names nothing.
RECURSIVE NbtRemove(_, _)
NbtRemove(nbt, path) ==
  LET step == Head(path)
  IN  IF step.kind = "key"
      THEN IF nbt.tag # "compound" \/ ~IsKey(nbt.entries, step.name) THEN <<>>
           ELSE IF Len(path) = 1
           THEN <<NbtCompound(MapRemove(nbt.entries, step.name))>>
           ELSE LET updated == NbtRemove(NbtChild(nbt, step.name), Tail(path))
                IN  IF updated = <<>> THEN <<>>
                    ELSE <<NbtCompound(
                             MapInsert(nbt.entries, step.name, updated[1]))>>
      ELSE IF \/ nbt.tag # "list"
              \/ ListPosition(nbt.items, step.index) \notin DOMAIN nbt.items
           THEN <<>>
           ELSE LET k == ListPosition(nbt.items, step.index)
                IN  IF Len(path) = 1 THEN <<NbtList(RemoveAt(nbt.items, k))>>
                    ELSE LET updated == NbtRemove(nbt.items[k], Tail(path))
                         IN  IF updated = <<>> THEN <<>>
                             ELSE <<NbtList([nbt.items EXCEPT ![k] = updated[1]])>>

\* The result of `data get`: the number itself, or the size of a list, a
\* compound or a string.
NbtSize(nbt) ==
  CASE nbt.tag = "list" -> Len(nbt.items)
    [] nbt.tag = "compound" -> Len(nbt.entries)
    [] nbt.tag = "string" -> Len(nbt.string)
    [] OTHER -> nbt.int

\* The names of the storage that the lowered commands use.
ENVIRONMENT_STACK == <<"e", "n", "v", "i", "r", "o", "n", "m", "e", "n", "t", "_", "s", "t", "a", "c", "k">>
CURRENT_ARGUMENTS == <<"c", "u", "r", "r", "e", "n", "t", "_", "a", "r", "g", "u", "m", "e", "n", "t", "s">>
CURRENT_ENVIRONMENT == <<"c", "u", "r", "r", "e", "n", "t", "_", "e", "n", "v", "i", "r", "o", "n", "m", "e", "n", "t">>
CURRENT_RETURN_VALUE == <<"c", "u", "r", "r", "e", "n", "t", "_", "r", "e", "t", "u", "r", "n", "_", "v", "a", "l", "u", "e">>
INTERNAL == <<"i", "n", "t", "e", "r", "n", "a", "l">>
PARENT == <<"p", "a", "r", "e", "n", "t">>
BINDINGS == <<"b", "i", "n", "d", "i", "n", "g", "s">>
EVALUATIONS == <<"e", "v", "a", "l", "u", "a", "t", "i", "o", "n", "s">>
FUNCTION == <<"f", "u", "n", "c", "t", "i", "o", "n">>
NAME == <<"n", "a", "m", "e">>
ENVIRONMENT_INDEX == <<"e", "n", "v", "i", "r", "o", "n", "m", "e", "n", "t", "_", "i", "n", "d", "e", "x">>
STRING_KEY == <<"s", "t", "r", "i", "n", "g">>
UNDEFINED == <<"u", "n", "d", "e", "f", "i", "n", "e", "d">>
THROW == <<"t", "h", "r", "o", "w">>
IDENTIFIER == <<"i", "d", "e", "n", "t", "i", "f", "i", "e", "r">>
EXPRESSION_ID == <<"e", "x", "p", "r", "e", "s", "s", "i", "o", "n", "_", "i", "d">>
STACK_INDEX == <<"s", "t", "a", "c", "k", "_", "i", "n", "d", "e", "x">>
STACK_SIZE == <<"s", "t", "a", "c", "k", "_", "s", "i", "z", "e">>
TAIL == <<"t", "a", "i", "l">>
RESOLVE_ARGS == <<"r", "e", "s", "o", "l", "v", "e", "_", "a", "r", "g", "s">>
POP_STACK_ARGS == <<"p", "o", "p", "_", "s", "t", "a", "c", "k", "_", "a", "r", "g", "s">>
COMMAND_ARGS == <<"c", "o", "m", "m", "a", "n", "d", "_", "a", "r", "g", "s">>

\* current_environment.bindings.<name> and current_environment.evaluations.<id>
Binding(name) == <<Key(CURRENT_ENVIRONMENT), Key(BINDINGS), Key(name)>>
Evaluation(id) == <<Key(CURRENT_ENVIRONMENT), Key(EVALUATIONS), Key(id)>>

\* {function: {name: '<name>'}}
FunctionRecord(name) == NbtOf(FUNCTION, NbtOf(NAME, NbtString(name)))


(***************************************************************************)
(* The commands of the lowered functions.  A command is a test (of         *)
(* `execute if` or `execute unless`), if it has one, and what is run.      *)
(***************************************************************************)

NoEffect ==
  [condition |-> <<>>, op |-> "none", target |-> <<>>, source |-> <<>>,
   value |-> <<>>, namespace |-> "", function |-> <<>>, arguments |-> <<>>]

\* data modify storage smelter:smelter <target> set value <value>
SetValue(target, value) ==
  [NoEffect EXCEPT !.op = "set_value", !.target = target, !.value = <<value>>]

\* data modify storage smelter:smelter <target> set from storage smelter:smelter <source>
SetFrom(target, source) ==
  [NoEffect EXCEPT !.op = "set_from", !.target = target, !.source = source]

\* data modify storage smelter:smelter <target> append from storage smelter:smelter <source>
AppendFrom(target, source) ==
  [NoEffect EXCEPT !.op = "append_from", !.target = target, !.source = source]

\* data remove storage smelter:smelter <target>
Remove(target) == [NoEffect EXCEPT !.op = "remove", !.target = target]

\* execute store result storage smelter:smelter <target> int 1 run data get storage smelter:smelter <source>
StoreSize(target, source) ==
  [NoEffect EXCEPT !.op = "store_size", !.target = target, !.source = source]

\* execute store result score #resolve__parent_index smelter_internal run data get storage smelter:smelter <source>
ScoreSize(source) == [NoEffect EXCEPT !.op = "score_size", !.source = source]

\* execute store result storage smelter:smelter <target> int 1 run scoreboard players get #resolve__parent_index smelter_internal
StoreScore(target) == [NoEffect EXCEPT !.op = "store_score", !.target = target]

\* function <namespace>:<function> [with storage smelter:smelter <arguments>]
Call(namespace, function, arguments) ==
  [NoEffect EXCEPT !.op = "call", !.namespace = namespace,
                   !.function = function, !.arguments = arguments]

\* return fail, return 1, return run function ...
ReturnFail == [NoEffect EXCEPT !.op = "return_fail"]
ReturnValue == [NoEffect EXCEPT !.op = "return_value"]
ReturnRun(namespace, function, arguments) ==
  [NoEffect EXCEPT !.op = "return_run", !.namespace = namespace,
                   !.function = function, !.arguments = <<arguments>>]

\* execute if data / execute unless data, and
\* execute if score #resolve__parent_index smelter_internal matches ..-1
Test(negate, path) == [kind |-> "data", negate |-> negate, path |-> path]
ScoreTest == [kind |-> "score", negate |-> FALSE, path |-> <<>>]

If(test, command) == [command EXCEPT !.condition = <<test>>]

\* $(key) in the text of a macro line: the argument as text, as a number.
MacroText(macro, key) ==
  LET argument == NbtChild(macro[1], key)
  IN  IF argument.tag = "string" THEN argument.string
      ELSE IF argument.int >= 0 THEN to_string(argument.int)
      ELSE <<"-">> \o to_string(0 - argument.int)

MacroNumber(macro, key) == NbtChild(macro[1], key).int

\* environment_stack[$(stack_index)].bindings.$(identifier)
StackBinding(macro) ==
  <<Key(ENVIRONMENT_STACK), At(MacroNumber(macro, STACK_INDEX)), Key(BINDINGS),
    Key(MacroText(macro, IDENTIFIER))>>

\* Mutant of Environment: the record has the parent 0, whatever is asked for.
Environment_ParentZero(parent) ==
  NbtCompound(
    MapInsert(MapInsert(MapInsert(<<>>, PARENT, NbtInt(0)),
                        BINDINGS, NbtCompound(<<>>)),
              EVALUATIONS, NbtCompound(<<>>)))

\* {parent: <parent>, bindings: {}, evaluations: {}}
Environment(parent) ==
  NbtCompound(
    MapInsert(MapInsert(MapInsert(<<>>, PARENT, NbtInt(parent)),
                        BINDINGS, NbtCompound(<<>>)),
              EVALUATIONS, NbtCompound(<<>>)))

\* {identifier: '<name>', expression_id: '<expression_id>'}
ResolveArgs(name, expression_id) ==
  NbtCompound(
    MapInsert(MapInsert(<<>>, IDENTIFIER, NbtString(name)),
              EXPRESSION_ID, NbtString(expression_id)))

\* The command of a line of a function: what the text of the line, with the
\* arguments of the macro put in, asks the game to do.  A debug_log line
\* (a tellraw) and a line that touches no storage have no effect here.
Decode(line, macro) ==
  CASE line.debug -> NoEffect
    [] line.template = "execute unless data storage smelter:smelter current_arguments[0].string run data modify storage smelter:smelter current_return_value set value {throw: 'TypeError'}" ->
         If(Test(TRUE, <<Key(CURRENT_ARGUMENTS), At(0), Key(STRING_KEY)>>), SetValue(<<Key(CURRENT_RETURN_VALUE)>>, NbtOf(THROW, NbtString(<<"T", "y", "p", "e", "E", "r", "r", "o", "r">>))))
    [] line.template = "execute unless data storage smelter:smelter current_arguments[0].string run return fail" ->
         If(Test(TRUE, <<Key(CURRENT_ARGUMENTS), At(0), Key(STRING_KEY)>>), ReturnFail)
    [] line.template = "data modify storage smelter:smelter internal.command_args.tail set from storage smelter:smelter current_arguments[0].string" ->
         SetFrom(<<Key(INTERNAL), Key(COMMAND_ARGS), Key(TAIL)>>, <<Key(CURRENT_ARGUMENTS), At(0), Key(STRING_KEY)>>)
    [] line.template = "return run function smelter:{command}_macro with storage smelter:smelter internal.command_args" ->
         ReturnRun("smelter", line.args[1] \o <<"_", "m", "a", "c", "r", "o">>, <<Key(INTERNAL), Key(COMMAND_ARGS)>>)
    [] line.template = "{command} $(tail)" ->
         NoEffect
    [] line.template = "data modify storage smelter:smelter environment_stack set value []" ->
         SetValue(<<Key(ENVIRONMENT_STACK)>>, NbtList(<<>>))
    [] line.template = "data modify storage smelter:smelter current_arguments set value []" ->
         SetValue(<<Key(CURRENT_ARGUMENTS)>>, NbtList(<<>>))
    [] line.template = "data modify storage smelter:smelter current_environment set value {parent: -1, bindings: {}, evaluations: {}}" ->
         SetValue(<<Key(CURRENT_ENVIRONMENT)>>, Environment(-1))
    [] line.template = "data modify storage smelter:smelter current_return_value set value {}" ->
         SetValue(<<Key(CURRENT_RETURN_VALUE)>>, NbtCompound(<<>>))
    [] line.template = "data modify storage smelter:smelter internal set value {}" ->
         SetValue(<<Key(INTERNAL)>>, NbtCompound(<<>>))
    [] line.template = "scoreboard objectives add smelter_internal dummy" ->
         NoEffect
    [] line.template = "execute unless data storage smelter:smelter current_arguments[0] run data modify storage smelter:smelter current_environment.bindings.{name} set value {undefined: true}" ->
         If(Test(TRUE, <<Key(CURRENT_ARGUMENTS), At(0)>>), SetValue(Binding(line.args[1]), NbtOf(UNDEFINED, NbtTrue)))
    [] line.template = "execute if data storage smelter:smelter current_arguments[0] run data modify storage smelter:smelter current_environment.bindings.{name} set from storage smelter:smelter current_arguments[0]" ->
         If(Test(FALSE, <<Key(CURRENT_ARGUMENTS), At(0)>>), SetFrom(Binding(line.args[1]), <<Key(CURRENT_ARGUMENTS), At(0)>>))
    [] line.template = "data remove storage smelter:smelter current_arguments[0]" ->
         Remove(<<Key(CURRENT_ARGUMENTS), At(0)>>)
    [] line.template = "data modify storage smelter:smelter current_environment.bindings.{name} set from storage smelter:smelter current_arguments" ->
         SetFrom(Binding(line.args[1]), <<Key(CURRENT_ARGUMENTS)>>)
    [] line.template = "execute if data storage smelter:smelter environment_stack[$(stack_index)].bindings.$(identifier) run data modify storage smelter:smelter current_environment.evaluations.$(expression_id) set from storage smelter:smelter environment_stack[$(stack_index)].bindings.$(identifier)" ->
         If(Test(FALSE, StackBinding(macro)), SetFrom(Evaluation(MacroText(macro, EXPRESSION_ID)), StackBinding(macro)))
    [] line.template = "execute if data storage smelter:smelter environment_stack[$(stack_index)].bindings.$(identifier) run return 1" ->
         If(Test(FALSE, StackBinding(macro)), ReturnValue)
    [] line.template = "execute store result score #resolve__parent_index smelter_internal run data get storage smelter:smelter environment_stack[$(stack_index)].parent" ->
         ScoreSize(<<Key(ENVIRONMENT_STACK), At(MacroNumber(macro, STACK_INDEX)), Key(PARENT)>>)
    [] line.template = "execute if score #resolve__parent_index smelter_internal matches ..-1 run return fail" ->
         If(ScoreTest, ReturnFail)
    [] line.template = "execute store result storage smelter:smelter internal.resolve_args.stack_index int 1 run scoreboard players get #resolve__parent_index smelter_internal" ->
         StoreScore(<<Key(INTERNAL), Key(RESOLVE_ARGS), Key(STACK_INDEX)>>)
    [] line.template = "return run function smelter_resolve with storage smelter:smelter internal.resolve_args" ->
         ReturnRun("minecraft", <<"s", "m", "e", "l", "t", "e", "r", "_", "r", "e", "s", "o", "l", "v", "e">>, <<Key(INTERNAL), Key(RESOLVE_ARGS)>>)
    [] line.template = "data modify storage smelter:smelter current_environment set from storage smelter:smelter environment_stack[$(environment_index)]" ->
         SetFrom(<<Key(CURRENT_ENVIRONMENT)>>, <<Key(ENVIRONMENT_STACK), At(MacroNumber(macro, ENVIRONMENT_INDEX))>>)
    [] line.template = "function smelter:$(name)" ->
         Call("smelter", MacroText(macro, NAME), <<>>)
    [] line.template = "data modify storage smelter:smelter current_environment set from storage smelter:smelter environment_stack[$(stack_size)]" ->
         SetFrom(<<Key(CURRENT_ENVIRONMENT)>>, <<Key(ENVIRONMENT_STACK), At(MacroNumber(macro, STACK_SIZE))>>)
    [] line.template = "data remove storage smelter:smelter environment_stack[$(stack_size)]" ->
         Remove(<<Key(ENVIRONMENT_STACK), At(MacroNumber(macro, STACK_SIZE))>>)
    [] line.template = "data modify storage smelter:smelter current_arguments append from storage smelter:smelter current_environment.evaluations.expr_{}" ->
         AppendFrom(<<Key(CURRENT_ARGUMENTS)>>, Evaluation(<<"e", "x", "p", "r", "_">> \o line.args[1]))
    [] line.template = "data modify storage smelter:smelter environment_stack append from storage smelter:smelter current_environment" ->
         AppendFrom(<<Key(ENVIRONMENT_STACK)>>, <<Key(CURRENT_ENVIRONMENT)>>)
    [] line.template = "function smelter:invoke with storage smelter:smelter current_environment.evaluations.{callee_expr_id}.function" ->
         Call("smelter", <<"i", "n", "v", "o", "k", "e">>, <<Evaluation(line.args[1]) \o <<Key(FUNCTION)>>>>)
    [] line.template = "data modify storage smelter:smelter internal.pop_stack_args set value {stack_size: 0}" ->
         SetValue(<<Key(INTERNAL), Key(POP_STACK_ARGS)>>, NbtOf(STACK_SIZE, NbtInt(0)))
    [] line.template = "execute store result storage smelter:smelter internal.pop_stack_args.stack_size int 1 run data get storage smelter:smelter environment_stack" ->
         StoreSize(<<Key(INTERNAL), Key(POP_STACK_ARGS)>> \o <<Key(STACK_SIZE)>>, <<Key(ENVIRONMENT_STACK)>>)
    [] line.template = "function smelter:pop_stack with storage smelter:smelter internal.pop_stack_args" ->
         Call("smelter", <<"p", "o", "p", "_", "s", "t", "a", "c", "k">>, <<<<Key(INTERNAL), Key(POP_STACK_ARGS)>>>>)
    [] line.template = "data modify storage smelter:smelter current_environment.evaluations.{expression_id} set value {function: {name: '{function_name}'}}" ->
         SetValue(Evaluation(line.args[1]), FunctionRecord(line.args[2]))
    [] line.template = "execute store result storage smelter:smelter current_environment.evaluations.{expression_id}.function.environment_index int 1 run data get storage smelter:smelter environment_stack" ->
         StoreSize(Evaluation(line.args[1]) \o <<Key(FUNCTION), Key(ENVIRONMENT_INDEX)>>, <<Key(ENVIRONMENT_STACK)>>)
    [] line.template = "execute if data storage smelter:smelter current_environment.bindings.{identifier} run data modify storage smelter:smelter current_environment.evaluations.{expression_id} set from storage smelter:smelter current_environment.bindings.{identifier}" ->
         If(Test(FALSE, Binding(line.args[1])), SetFrom(Evaluation(line.args[2]), Binding(line.args[3])))
    [] line.template = "execute unless data storage smelter:smelter current_environment.evaluations.{expression_id} run data modify storage smelter:smelter internal.resolve_args set value {identifier: '{identifier}', expression_id: '{expression_id}'}" ->
         If(Test(TRUE, Evaluation(line.args[1])), SetValue(<<Key(INTERNAL), Key(RESOLVE_ARGS)>>, ResolveArgs(line.args[2], line.args[3])))
    [] line.template = "execute unless data storage smelter:smelter current_environment.evaluations.{expression_id} run data modify storage smelter:smelter internal.resolve_args.stack_index set from storage smelter:smelter current_environment.parent" ->
         If(Test(TRUE, Evaluation(line.args[1])), SetFrom(<<Key(INTERNAL), Key(RESOLVE_ARGS)>> \o <<Key(STACK_INDEX)>>, <<Key(CURRENT_ENVIRONMENT), Key(PARENT)>>))
    [] line.template = "execute unless data storage smelter:smelter current_environment.evaluations.{expression_id} run function smelter:resolve with storage smelter:smelter internal.resolve_args" ->
         If(Test(TRUE, Evaluation(line.args[1])), Call("smelter", <<"r", "e", "s", "o", "l", "v", "e">>, <<<<Key(INTERNAL), Key(RESOLVE_ARGS)>>>>))
    [] line.template = "data modify storage smelter:smelter current_environment.evaluations.{expression_id} set value {string: '{string_value}'}" ->
         SetValue(Evaluation(line.args[1]), NbtOf(STRING_KEY, NbtString(line.args[2])))
    [] line.template = "data modify storage smelter:smelter current_environment.bindings.{name} set from storage smelter:smelter current_environment.evaluations.{expression_id}" ->
         SetFrom(Binding(line.args[1]), Evaluation(line.args[2]))
    [] line.template = "data modify storage smelter:smelter current_environment.bindings.{name} set value {undefined: true}" ->
         SetValue(Binding(line.args[1]), NbtOf(UNDEFINED, NbtTrue))
    [] line.template = "data modify storage smelter:smelter current_environment.bindings.{function_identifier} set value {function: {name: '{function_name}'}}" ->
         SetValue(Binding(line.args[1]), FunctionRecord(line.args[2]))
    [] line.template = "execute store result storage smelter:smelter current_environment.bindings.{function_identifier}.function.environment_index int 1 run data get storage smelter:smelter environment_stack" ->
         StoreSize(Binding(line.args[1]) \o <<Key(FUNCTION), Key(ENVIRONMENT_INDEX)>>, <<Key(ENVIRONMENT_STACK)>>)
    [] OTHER -> NoEffect


(***************************************************************************)
(* The programs that are run: a few whole programs, each with a call.      *)
(***************************************************************************)

NameY == <<"y">>
NameW == <<"w">>

\* `function f(s) { "hi" }`, at offset 0
DeclareF ==
  FunctionDeclaration(
    Function(<<BindingIdentifier(NameF)>>,
             FormalParameters(<<BindingIdentifier(NameS)>>, <<>>),
             <<FunctionBody(<<>>,
                 <<ExpressionStatement(StringLiteral(20, NameHi))>>)>>,
             0))

\* `function f({}, s, ...r) { }`, at offset 0
DeclareFPattern ==
  FunctionDeclaration(
    Function(<<BindingIdentifier(NameF)>>,
             FormalParameters(<<ObjectPattern, BindingIdentifier(NameS)>>,
                              <<BindingIdentifier(NameR)>>),
             <<FunctionBody(<<>>, <<>>)>>,
             0))

\* `function f(s, ...r) { }`, at offset 0
DeclareFRest ==
  FunctionDeclaration(
    Function(<<BindingIdentifier(NameF)>>,
             FormalParameters(<<BindingIdentifier(NameS)>>,
                              <<BindingIdentifier(NameR)>>),
             <<FunctionBody(<<>>, <<>>)>>,
             0))

\* `function f() { var y = "hi"; g(); }`, at offset 0
DeclareFCallsG ==
  FunctionDeclaration(
    Function(<<BindingIdentifier(NameF)>>, NoParameters,
             <<FunctionBody(<<>>,
                 <<VariableDeclaration(
                     <<VariableDeclarator(<<NameY>>,
                                          <<StringLiteral(28, NameHi)>>)>>),
                   ExpressionStatement(
                     CallExpression(40, Identifier(40, NameG), <<>>))>>)>>,
             0))

\* `function g() { y; }`, at offset 100
DeclareG ==
  FunctionDeclaration(
    Function(<<BindingIdentifier(NameG)>>, NoParameters,
             <<FunctionBody(<<>>,
                 <<ExpressionStatement(Identifier(120, NameY))>>)>>,
             100))

\* `function Say(s) { "smelter say" }`, at offset 0
DeclareSay ==
  FunctionDeclaration(
    Function(<<BindingIdentifier(NameSay)>>,
             FormalParameters(<<BindingIdentifier(NameS)>>, <<>>),
             <<FunctionBody(<<DirectiveSay>>, <<>>)>>,
             0))

\* `<callee>(<arguments>)` at an offset, the arguments after it
CallOf(start, callee, arguments) ==
  CallExpression(start, Identifier(start, callee), arguments)

Hi(start) == StringLiteral(start, NameHi)

VarOf(name, init) == VariableDeclaration(<<VariableDeclarator(<<name>>, <<init>>)>>)

RuntimePrograms ==
  {[body |-> b] : b \in
     {<<DeclareF, ExpressionStatement(CallOf(100, NameF, <<Hi(102)>>))>>,
      <<DeclareF, ExpressionStatement(CallOf(100, NameF, <<>>))>>,
      <<DeclareF, ExpressionStatement(CallOf(100, NameF, <<Hi(102), Hi(107)>>))>>,
      <<DeclareF, VarOf(NameV, CallOf(108, NameF, <<Hi(110)>>))>>,
      <<DeclareFPattern, ExpressionStatement(CallOf(100, NameF, <<Hi(102)>>))>>,
      <<DeclareFRest,
        ExpressionStatement(CallOf(100, NameF, <<Hi(102), Hi(107), Hi(112)>>))>>,
      <<DeclareFCallsG, DeclareG, ExpressionStatement(CallOf(200, NameF, <<>>))>>,
      <<DeclareSay, ExpressionStatement(CallOf(100, NameSay, <<Hi(104)>>))>>,
      <<DeclareSay, ExpressionStatement(CallOf(100, NameSay, <<>>))>>,
      <<DeclareSay,
        ExpressionStatement(CallOf(100, NameSay, <<Identifier(104, NameSay)>>))>>,
      <<VarOf(NameV, Hi(8)), ExpressionStatement(Identifier(100, NameV)),
        ExpressionStatement(Identifier(200, NameW))>>,
      <<VarOf(NameV, Arrow(8, <<>>)),
        ExpressionStatement(CallOf(100, NameV, <<Hi(102)>>))>>,
      <<ExpressionStatement(CallOf(0, NameW, <<Hi(2)>>))>>}}

\* The arguments a macro line takes from the compound it is called with.
MacroKeys(line) ==
  IF ~line.macro THEN {}
  ELSE CASE line.template \in
              {"entering resolve: identifier=$(identifier) stack_index=$(stack_index) expression_id=$(expression_id)",
               "execute if data storage smelter:smelter environment_stack[$(stack_index)].bindings.$(identifier) run data modify storage smelter:smelter current_environment.evaluations.$(expression_id) set from storage smelter:smelter environment_stack[$(stack_index)].bindings.$(identifier)"} ->
              {IDENTIFIER, STACK_INDEX, EXPRESSION_ID}
         [] line.template = "execute if data storage smelter:smelter environment_stack[$(stack_index)].bindings.$(identifier) run return 1" ->
              {IDENTIFIER, STACK_INDEX}
         [] line.template = "execute store result score #resolve__parent_index smelter_internal run data get storage smelter:smelter environment_stack[$(stack_index)].parent" ->
              {STACK_INDEX}
         [] line.template = "entering invoke: name=$(name) environment_index=$(environment_index)" ->
              {NAME, ENVIRONMENT_INDEX}
         [] line.template = "data modify storage smelter:smelter current_environment set from storage smelter:smelter environment_stack[$(environment_index)]" ->
              {ENVIRONMENT_INDEX}
         [] line.template = "function smelter:$(name)" -> {NAME}
         [] line.template \in
              {"entering pop_stack: stack_size=$(stack_size)",
               "data modify storage smelter:smelter current_environment set from storage smelter:smelter environment_stack[$(stack_size)]",
               "data remove storage smelter:smelter environment_stack[$(stack_size)]"} ->
              {STACK_SIZE}
         [] line.template \in
              {"entering macro function {command}: tail=$(tail)", "{command} $(tail)"} ->
              {TAIL}
         [] OTHER -> {}

\* A line the game can parse: a path has no empty name in it.
WellFormed(line) ==
  ~(/\ line.template = "data modify storage smelter:smelter current_environment.bindings.{name} set from storage smelter:smelter current_arguments"
    /\ line.args[1] = <<>>)

(***************************************************************************)
(* The data pack at run time: the files main wrote are loaded, then        *)
(* `function smelter:initialize` and `function smelter:main` are run, one  *)
(* command at a time.                                                      *)
(***************************************************************************)

\* A function being run: the next line, the compound it was called with (an
\* Option), current_arguments when it was entered, and, between the push of
\* a call and its end, the stack length and the environment at the push.
Frame(name, macro, entered_with) ==
  [name |-> name, pc |-> 1, macro |-> macro, entered_with |-> entered_with,
   pushed |-> <<>>]

Top == frames[Len(frames)]

AtEnd == Top.pc > Len(functions[Top.name])

\* The command the innermost function is at.
Current == Decode(functions[Top.name][Top.pc], Top.macro)

\* The test of a command holds, or it has none.
Holds(command) ==
  \/ command.condition = <<>>
  \/ /\ command.condition # <<>>
     /\ LET test == command.condition[1]
        IN  IF test.kind = "data"
            THEN (NbtGet(storage, test.path) # <<>>) # test.negate
            ELSE score # <<>> /\ score[1] <= -1

\* The frames with the innermost one moved to its next line.
Advanced == [frames EXCEPT ![Len(frames)].pc = @ + 1]

\* The items of current_arguments.
Arguments(nbt) ==
  LET list == NbtGet(nbt, <<Key(CURRENT_ARGUMENTS)>>)
  IN  IF list # <<>> /\ list[1].tag = "list" THEN list[1].items ELSE <<>>

StackLength(nbt) ==
  LET list == NbtGet(nbt, <<Key(ENVIRONMENT_STACK)>>)
  IN  IF list = <<>> THEN 0 ELSE NbtSize(list[1])

\* The function a command names can be run: it is in the pack, and the
\* compound it is called with has the arguments its macro lines take.
Callable(command) ==
  /\ command.namespace = "smelter"
  /\ command.function \in DOMAIN functions
  /\ LET keys == UNION {MacroKeys(functions[command.function][i]) :
                          i \in DOMAIN functions[command.function]}
     IN  IF command.arguments = <<>> THEN keys = {}
         ELSE LET compound == NbtGet(storage, command.arguments[1])
              IN  /\ compound # <<>>
                  /\ compound[1].tag = "compound"
                  /\ \A key \in keys : IsKey(compound[1].entries, key)

Called(command) ==
  Frame(command.function,
        IF command.arguments = <<>> THEN <<>>
        ELSE NbtGet(storage, command.arguments[1]),
        Arguments(storage))

\* The storage after a `data` command; a command that fails leaves it.
Modified(command) ==
  LET from == NbtGet(storage, command.source)
      list == NbtGet(storage, command.target)
      result ==
        CASE command.op = "set_value" ->
               NbtSet(storage, command.target, command.value[1])
          [] command.op = "set_from" ->
               IF from = <<>> THEN <<>>
               ELSE NbtSet(storage, command.target, from[1])
          [] command.op = "append_from" ->
               IF from = <<>> THEN <<>>
               ELSE IF list = <<>>
               THEN NbtSet(storage, command.target, NbtList(from))
               ELSE IF list[1].tag = "list"
               THEN NbtSet(storage, command.target,
                           NbtList(Append(list[1].items, from[1])))
               ELSE <<>>
          [] OTHER -> NbtRemove(storage, command.target)
  IN  IF result = <<>> THEN storage ELSE result[1]

\* The storage with a number stored at a path.
Stored(path, number) ==
  LET result == NbtSet(storage, path, NbtInt(number))
  IN  IF result = <<>> THEN storage ELSE result[1]

InitR ==
  /\ program \in RuntimePrograms
  /\ phase = "parsed"
  /\ data_pack = <<>>
  /\ files = <<>>
  /\ IdleA
  /\ IdleT
  /\ IdleF
  /\ IdleC
  /\ IdleR

\* The game loads the pack: a file with a line it cannot parse is left out.
Load ==
  /\ phase = "written"
  /\ runtime_stage = "idle"
  /\ functions' =
       [name \in {n \in DOMAIN files :
                    \A i \in DOMAIN files[n] : WellFormed(files[n][i])} |->
          files[name]]
  /\ storage' = NbtCompound(<<>>)
  /\ runtime_stage' = "loaded"
  /\ UNCHANGED <<score, frames, last_call, varsB, varsExceptR>>

\* function smelter:initialize
RunInitialize ==
  /\ runtime_stage = "loaded"
  /\ frames' = <<Frame(compile_init_function.name, <<>>, <<>>)>>
  /\ runtime_stage' = "initializing"
  /\ UNCHANGED <<functions, storage, score, last_call, varsB, varsExceptR>>

\* function smelter:main
RunMain ==
  /\ runtime_stage = "initializing"
  /\ frames = <<>>
  /\ frames' = <<Frame(MAIN, <<>>, <<>>)>>
  /\ runtime_stage' = "running"
  /\ UNCHANGED <<functions, storage, score, last_call, varsB, varsExceptR>>

Finish ==
  /\ runtime_stage = "running"
  /\ frames = <<>>
  /\ runtime_stage' = "done"
  /\ UNCHANGED <<functions, storage, score, frames, last_call, varsB, varsExceptR>>

\* The last line of a function was run.
EndOfFunction ==
  /\ frames # <<>>
  /\ AtEnd
  /\ frames' = SubSeq(frames, 1, Len(frames) - 1)
  /\ UNCHANGED <<functions, storage, score, runtime_stage, last_call, varsB, varsExceptR>>

\* A line that changes nothing here: a tellraw, or a command whose test fails.
Skip ==
  /\ frames # <<>>
  /\ ~AtEnd
  /\ Current.op = "none" \/ ~Holds(Current)
  /\ frames' = Advanced
  /\ UNCHANGED <<functions, storage, score, runtime_stage, last_call, varsB, varsExceptR>>

\* data modify, data remove.  The push of a call is noted in the frame, and
\* the clearing of current_arguments that ends the call in last_call.
ModifyData ==
  /\ frames # <<>>
  /\ ~AtEnd
  /\ Current.op \in {"set_value", "set_from", "append_from", "remove"}
  /\ Holds(Current)
  /\ storage' = Modified(Current)
  /\ IF /\ Current.op = "append_from"
        /\ Current.target = <<Key(ENVIRONMENT_STACK)>>
     THEN /\ frames' =
               [Advanced EXCEPT ![Len(frames)].pushed =
                  <<[length |-> StackLength(storage),
                     environment |->
                       NbtGet(storage, <<Key(CURRENT_ENVIRONMENT)>>)]>>]
          /\ UNCHANGED last_call
     ELSE IF /\ Current.op = "set_value"
             /\ Current.target = <<Key(CURRENT_ARGUMENTS)>>
             /\ Top.pushed # <<>>
     THEN /\ frames' = [Advanced EXCEPT ![Len(frames)].pushed = <<>>]
          /\ last_call' =
               <<[length_before |-> Top.pushed[1].length,
                  pushed |-> Top.pushed[1].environment,
                  length_after |-> StackLength(storage'),
                  environment_after |->
                    NbtGet(storage', <<Key(CURRENT_ENVIRONMENT)>>),
                  arguments_after |-> Arguments(storage')]>>
     ELSE /\ frames' = Advanced
          /\ UNCHANGED last_call
  /\ UNCHANGED <<functions, score, runtime_stage, varsB, varsExceptR>>

\* execute store result ...: the result of the command is stored, 0 when it
\* fails.
StoreResult ==
  /\ frames # <<>>
  /\ ~AtEnd
  /\ Current.op \in {"store_size", "score_size", "store_score"}
  /\ Holds(Current)
  /\ LET from == NbtGet(storage, Current.source)
         size == IF from = <<>> THEN 0 ELSE NbtSize(from[1])
     IN  CASE Current.op = "store_size" ->
                /\ storage' = Stored(Current.target, size)
                /\ UNCHANGED score
           [] Current.op = "score_size" ->
                /\ score' = <<size>>
                /\ UNCHANGED storage
           [] OTHER ->
                /\ storage' = Stored(Current.target,
                                     IF score = <<>> THEN 0 ELSE score[1])
                /\ UNCHANGED score
  /\ frames' = Advanced
  /\ UNCHANGED <<functions, runtime_stage, last_call, varsB, varsExceptR>>

\* function ...: the function is entered if it can be run.
CallFunction ==
  /\ frames # <<>>
  /\ ~AtEnd
  /\ Current.op = "call"
  /\ Holds(Current)
  /\ frames' = IF Callable(Current) THEN Append(Advanced, Called(Current))
               ELSE Advanced
  /\ UNCHANGED <<functions, storage, score, runtime_stage, last_call, varsB, varsExceptR>>

\* return fail, return 1, and return run function ..., which leaves the
\* function for the one it names if that can be run.
Return ==
  /\ frames # <<>>
  /\ ~AtEnd
  /\ Current.op \in {"return_fail", "return_value", "return_run"}
  /\ Holds(Current)
  /\ frames' =
       IF Current.op = "return_run" /\ Callable(Current)
       THEN Append(SubSeq(frames, 1, Len(frames) - 1), Called(Current))
       ELSE SubSeq(frames, 1, Len(frames) - 1)
  /\ UNCHANGED <<functions, storage, score, runtime_stage, last_call, varsB, varsExceptR>>

NextR ==
  \/ CompileProgram
  \/ WriteDataPack
  \/ Load
  \/ RunInitialize
  \/ RunMain
  \/ Finish
  \/ EndOfFunction
  \/ Skip
  \/ ModifyData
  \/ StoreResult
  \/ CallFunction
  \/ Return

SpecR == InitR /\ [][NextR]_vars


(***************************************************************************)
(* Properties of the data pack at run time                                 *)
(***************************************************************************)

\* C15 (as claimed): when a call has ended, environment_stack has the length
\* it had before the push of the call, current_environment is the
\* environment that was pushed, and current_arguments is empty.
C15_CallStackDiscipline ==
  last_call # <<>> =>
    /\ last_call[1].length_after = last_call[1].length_before
    /\ last_call[1].environment_after = last_call[1].pushed
    /\ last_call[1].arguments_after = <<>>

\* The expression whose value the last statement of the program leaves: that
\* of an expression statement, or the initialiser of a declaration.
LastExpression ==
  LET last == program.body[Len(program.body)]
  IN  IF last.kind = "ExpressionStatement" THEN last.expression
      ELSE IF last.kind = "VariableDeclaration" /\ last.declarations # <<>>
      THEN last.declarations[1].init
      ELSE <<>>

\* C17 (as claimed): when main has ended, the slot expr_<span.start> of the
\* expression of its last statement holds the expression's value: the string
\* of a literal, the function record of an arrow, the binding of a bound
\* identifier, the value the callee returned for a call of a bound callee;
\* and a variable declared with the expression is bound to that value.
C17_EvaluationSlot ==
  (runtime_stage = "done" /\ LastExpression # <<>>) =>
    LET expression == LastExpression[1]
        last == program.body[Len(program.body)]
        slot == NbtGet(storage, Evaluation(make_expression_id(expression)))
    IN  /\ CASE expression.kind = "StringLiteral" ->
                  slot = <<NbtOf(STRING_KEY, NbtString(expression.name))>>
             [] expression.kind = "ArrowFunctionExpression" ->
                  /\ slot # <<>>
                  /\ NbtGet(slot[1], <<Key(FUNCTION), Key(NAME)>>) =
                       <<NbtString(make_function_name(
                                     <<>>, expression.function[1].span))>>
             [] expression.kind = "Identifier" ->
                  NbtGet(storage, Binding(expression.name)) # <<>> =>
                    slot = NbtGet(storage, Binding(expression.name))
             [] expression.kind = "CallExpression" ->
                  NbtGet(storage, Binding(expression.callee[1].name)) # <<>> =>
                    slot = NbtGet(storage, <<Key(CURRENT_RETURN_VALUE)>>)
             [] OTHER -> TRUE
        /\ (last.kind = "VariableDeclaration" /\ last.declarations[1].id # <<>>) =>
             NbtGet(storage, Binding(last.declarations[1].id[1])) = slot

\* The number of lines of the binding prelude of a function.
PreludeLength(function) ==
  Len(Concat([i \in DOMAIN function.params.items |->
                compile_bind_argument(function.params.items[i])]))
    + (IF function.params.rest # <<>>
       THEN Len(compile_bind_rest_argument(function.params.rest[1]))
       ELSE 0)

\* C18 (as claimed): when the prelude of a normally lowered function has
\* run, its i-th positional parameter, if an identifier, is bound to the i-th
\* of the arguments the function was entered with, or to {undefined: true}
\* if there are fewer, and its rest parameter to the list of the arguments
\* after the positional ones.
C18_ArgumentBinding ==
  frames # <<>> =>
    \A k \in DOMAIN VisitedFunctions(program) :
       LET function == VisitedFunctions(program)[k]
           items == function.params.items
           rest == function.params.rest
           arguments == Top.entered_with
       IN  (/\ Top.name = make_function_name(function.id, function.span)
            /\ CommandDirective(function.body[1]) = <<>>
            /\ Top.pc = PreludeLength(function) + 2) =>
             /\ \A i \in DOMAIN items :
                   items[i].kind = "BindingIdentifier" =>
                     NbtGet(storage, Binding(items[i].name)) =
                       <<IF i <= Len(arguments) THEN arguments[i]
                         ELSE NbtOf(UNDEFINED, NbtTrue)>>
             /\ (rest # <<>> /\ rest[1].kind = "BindingIdentifier") =>
                   NbtGet(storage, Binding(rest[1].name)) =
                     <<NbtList(SubSeq(arguments, Len(items) + 1, Len(arguments)))>>

\* The binding of a name in the nearest environment that has one on the
\* chain of parent links from environment_stack[index]; an index below 0
\* ends the chain.
RECURSIVE ChainLookup(_, _, _)
ChainLookup(stack, index, name) ==
  IF index < 0 \/ index >= Len(stack) THEN <<>>
  ELSE LET found == NbtGet(stack[index + 1], <<Key(BINDINGS), Key(name)>>)
           parent == NbtGet(stack[index + 1], <<Key(PARENT)>>)
       IN  IF found # <<>> THEN found
           ELSE IF parent = <<>> THEN <<>>
           ELSE ChainLookup(stack, parent[1].int, name)

\* C19 (as claimed): when the lowered evaluation of an identifier has run,
\* its slot holds the binding of the current environment if it has one,
\* otherwise that of the nearest environment of the parent chain that has
\* one, and is unset if none has.
C19_IdentifierResolution ==
  (frames # <<>> /\ ~AtEnd) =>
    LET line == functions[Top.name][Top.pc]
    IN  (line.debug /\ line.template = "done evaluating identifier {identifier}") =>
          LET name == line.args[1]
              expression_id == functions[Top.name][Top.pc - 1].args[1]
              local == NbtGet(storage, Binding(name))
              stack == NbtGet(storage, <<Key(ENVIRONMENT_STACK)>>)[1].items
              parent == NbtGet(storage, <<Key(CURRENT_ENVIRONMENT), Key(PARENT)>>)[1].int
          IN  NbtGet(storage, Evaluation(expression_id)) =
                IF local # <<>> THEN local ELSE ChainLookup(stack, parent, name)

CommandSay == <<"s", "a", "y">>

\* The innermost function is the wrapper of a `smelter say` function, at one
\* of its lines.
InWrapper ==
  /\ frames # <<>>
  /\ ~AtEnd
  /\ functions[Top.name] = compile_command_wrapper_function_body(CommandSay)

\* current_arguments[0].string, as an Option.
FirstArgumentString ==
  NbtGet(storage, <<Key(CURRENT_ARGUMENTS), At(0), Key(STRING_KEY)>>)

\* C24: while the wrapper runs with a first argument that is absent or not a
\* string, internal.command_args stays as it is and `say_macro` is not run,
\* and the wrapper is left by `return fail` with current_return_value =
\* {throw: 'TypeError'}; with a string, current_return_value stays as it is
\* and the wrapper is left for `say_macro`, called with the compound
\* internal.command_args whose tail is the string.
C24_WrapperTypeCheck ==
  [][InWrapper =>
       LET command_args == <<Key(INTERNAL), Key(COMMAND_ARGS)>>
           return_value == <<Key(CURRENT_RETURN_VALUE)>>
           macro_name == compile_command_macro_function(CommandSay).name
           outer == SubSeq(frames, 1, Len(frames) - 1)
           left == Len(frames') < Len(frames)
                     \/ frames'[Len(frames)].name # Top.name
       IN  IF FirstArgumentString = <<>>
           THEN /\ NbtGet(storage', command_args) = NbtGet(storage, command_args)
                /\ \A k \in DOMAIN frames' : frames'[k].name # macro_name
                /\ left =>
                     /\ Current.op = "return_fail"
                     /\ frames' = outer
                     /\ NbtGet(storage', return_value) =
                          <<NbtOf(THROW, NbtString(<<"T", "y", "p", "e", "E", "r", "r", "o", "r">>))>>
           ELSE /\ NbtGet(storage', return_value) = NbtGet(storage, return_value)
                /\ left =>
                     /\ Len(frames') = Len(frames)
                     /\ frames'[Len(frames)].name = macro_name
                     /\ frames'[Len(frames)].macro =
                          <<NbtOf(TAIL, FirstArgumentString[1])>>
                     /\ SubSeq(frames', 1, Len(frames) - 1) = outer
  ]_vars

\* C24 witness: the program has ended after the wrapper, run without a first
\* argument, has set the TypeError.
C24_Witness ==
  /\ runtime_stage = "done"
  /\ program.body[Len(program.body)] =
       ExpressionStatement(CallOf(100, NameSay, <<>>))
  /\ NbtGet(storage, <<Key(CURRENT_RETURN_VALUE)>>) =
       <<NbtOf(THROW, NbtString(<<"T", "y", "p", "e", "E", "r", "r", "o", "r">>))>>

\* The elements of environment_stack.
EnvironmentStack ==
  LET list == NbtGet(storage, <<Key(ENVIRONMENT_STACK)>>)
  IN  IF list # <<>> /\ list[1].tag = "list" THEN list[1].items ELSE <<>>

\* C30: once initialize has run, current_environment and every element of
\* environment_stack have parent = -1.
C30_ParentsNeverSet ==
  runtime_stage \in {"running", "done"} =>
    /\ NbtGet(storage, <<Key(CURRENT_ENVIRONMENT), Key(PARENT)>>) = <<NbtInt(-1)>>
    /\ \A k \in DOMAIN EnvironmentStack :
          NbtGet(EnvironmentStack[k], <<Key(PARENT)>>) = <<NbtInt(-1)>>

\* C30 witness: a function called from a called function is being run, with
\* two environments on the stack.
C30_Witness ==
  /\ runtime_stage = "running"
  /\ Len(EnvironmentStack) = 2
  /\ Len(frames) >= 5

====
